---------------------------- MODULE Spec2Model ----------------------------
(***************************************************************************)
(* A model of wArgs: the type resolver (introspection/types.py), the       *)
(* converter registry (converters/registry.py), the constructor-parameter  *)
(* merge over a class's linearized ancestors (introspection/mro.py), the   *)
(* argument configuration builder (builders/arguments.py), the parser and  *)
(* subcommand builders (builders/parser.py, builders/subcommands.py), the  *)
(* decoration wrappers (decorator.py), the command groups                  *)
(* (core/groups.py) and the plugin registry (plugins/registry.py).         *)
(*                                                                         *)
(* Text (identifiers, flags, command-line tokens) is a sequence of         *)
(* one-character strings, so that formatting and parsing are computed.     *)
(* Every tagged value is a record whose tag field is "kind".               *)
(***************************************************************************)
EXTENDS Integers, Sequences, FiniteSets, TLC

VARIABLES
    \* ---- converter registry and type resolver
    converters,      \* ConverterRegistry._converters: class -> converter id
    annotation,      \* the annotation last handed to resolve_type
    type_info,       \* the TypeInfo resolve_type returned
    registry_arg,    \* whether that call was handed the registry
    \* ---- round trip of a value through str() and a resolved converter
    rt_value,        \* the typed value v
    rt_token,        \* str(v)
    rt_result,       \* converter(str(v))
    rt_pc,           \* "start" | "formatted" | "converted"
    \* ---- constructor-parameter merge over a class's ancestors
    class_init,      \* class -> the parameters its own __init__ declares
    warn_on_conflict,\* the flag handed to traverse_mro
    merged,          \* the list traverse_mro returned
    warnings,        \* the warnings.warn calls made, in order
    mro_pc,          \* "start" | "done"
    \* ---- argument configuration builder
    args_func_info,  \* the FunctionInfo handed to build_parser_config
    args_prefix,      \* the prefix handed to it
    parser_config,   \* the ParserConfig it returned
    args_pc,         \* "start" | "done"
    \* ---- decoration wrappers
    func_wrapper,    \* the WargsWrapper of a decorated function
    class_wrapper,   \* the WargsClassWrapper of a decorated class
    last_access,     \* the last operation on a wrapper and what it returned
    \* ---- one call of build_argument_config
    given_param,     \* the ParameterInfo handed to build_argument_config
    given_metadata,  \* the Arg handed to it, or None
    given_prefix,    \* the prefix handed to it
    argument_config, \* the ArgumentConfig it returned
    \* ---- a command group
    cli_group,       \* the WargsGroup of a decorated function, its tree of
                     \* commands and subgroups included
    calls,           \* the functions invoked so far with their keywords
    group_access,    \* the last operation on the group and what it returned
    \* ---- a ConverterRegistry object and a PluginRegistry object
    converter_registry, \* a ConverterRegistry: _converters, _plugins_loaded
    plugin_registry, \* the PluginRegistry: _loaded_plugins and _failed_plugins
    registry_log,    \* the operations made so far, in order
    registry_return  \* what the last operation returned

typeVars == <<converters, annotation, type_info, registry_arg>>
rtVars == <<rt_value, rt_token, rt_result, rt_pc>>
mroVars == <<class_init, warn_on_conflict, merged, warnings, mro_pc>>
argsVars == <<args_func_info, args_prefix, parser_config, args_pc>>
wrapperVars == <<func_wrapper, class_wrapper, last_access>>
argumentVars == <<given_param, given_metadata, given_prefix, argument_config>>
groupVars == <<cli_group, calls, group_access>>
registryVars == <<converter_registry, plugin_registry, registry_log, registry_return>>
vars == <<typeVars, rtVars, mroVars, argsVars, wrapperVars, argumentVars, groupVars, registryVars>>
exceptTypes == <<rtVars, mroVars, argsVars, wrapperVars, argumentVars, groupVars, registryVars>>
exceptRt == <<typeVars, mroVars, argsVars, wrapperVars, argumentVars, groupVars, registryVars>>
exceptMro == <<typeVars, rtVars, argsVars, wrapperVars, argumentVars, groupVars, registryVars>>
exceptArgs == <<typeVars, rtVars, mroVars, wrapperVars, argumentVars, groupVars, registryVars>>
exceptWrappers == <<typeVars, rtVars, mroVars, argsVars, argumentVars, groupVars, registryVars>>
exceptArgument == <<typeVars, rtVars, mroVars, argsVars, wrapperVars, groupVars, registryVars>>
exceptGroup == <<typeVars, rtVars, mroVars, argsVars, wrapperVars, argumentVars, registryVars>>
exceptRegistry == <<typeVars, rtVars, mroVars, argsVars, wrapperVars, argumentVars, groupVars>>

None == [kind |-> "None"]

(***************************************************************************)
(* Python facts the code relies on: the classes of the model and their     *)
(* linearizations (cls.__mro__).                                           *)
(***************************************************************************)
ClassMro(c) ==
    CASE c = "bool" -> <<"bool", "int", "object">>
      [] c = "Path" -> <<"Path", "PurePath", "object">>
      [] c = "SubItem" -> <<"SubItem", "Item", "object">>
      [] c = "Color" -> <<"Color", "Enum", "object">>
      [] c = "object" -> <<"object">>
      [] OTHER -> <<c, "object">>

EnumClasses == {"Color"}

\* issubclass(c, Enum)
IsEnumSubclass(c) == \E i \in 1..Len(ClassMro(c)) : ClassMro(c)[i] = "Enum"

(***************************************************************************)
(* introspection/types.py                                                  *)
(***************************************************************************)
BASIC_TYPES == {"str", "int", "float", "bool", "Path"}

COLLECTION_TYPES == {"list", "tuple", "set", "frozenset"}

\* Annotations.  Cls(c) is the class c itself, Generic(o, a) is o[a...],
\* Union(a) is typing.Union[a...] as Python normalizes it (two or more
\* distinct alternatives), Literal(v) is typing.Literal[v...], Annotated(t, m)
\* is typing.Annotated[t, m...].
Cls(c) == [kind |-> "class", cls |-> c]
Generic(o, a) == [kind |-> "generic", origin |-> o, args |-> a]
Union(a) == [kind |-> "union", args |-> a]
Literal(v) == [kind |-> "literal", values |-> v]
Annotated(t, m) == [kind |-> "annotated", type |-> t, metadata |-> m]
NoneType == Cls("NoneType")
Optional(a) == Union(<<a, NoneType>>)

\* Converters: a class used as its own constructor, a function registered
\* in the registry, or the closure _make_enum_converter returns.
Ctor(c) == [kind |-> "ctor", cls |-> c]
Custom(f) == [kind |-> "custom", id |-> f]
EnumConv(c) == [kind |-> "enum_by_name", cls |-> c]

\* typing.get_origin / typing.get_args
get_origin(a) ==
    CASE a.kind = "generic" -> Cls(a.origin)
      [] a.kind = "union" -> [kind |-> "Union"]
      [] a.kind = "literal" -> [kind |-> "Literal"]
      [] a.kind = "annotated" -> [kind |-> "Annotated"]
      [] OTHER -> None

get_args(a) ==
    CASE a.kind = "generic" -> a.args
      [] a.kind = "union" -> a.args
      [] a.kind = "literal" -> a.values
      [] a.kind = "annotated" -> <<a.type>> \o a.metadata
      [] OTHER -> <<>>

\* isinstance(annotation, type)
IsType(a) == a.kind = "class"

TypeError == [kind |-> "TypeError"]

\* hash(annotation): a class or a typing form of classes has a hash; an
\* Annotated form hashes its metadata, and the frozen dataclass Arg hashes
\* every one of its fields, so a list or dict held in an Arg has none
HashableValue(v) == v.kind \notin {"list", "dict"}
HashableArg(m) ==
    m.kind # "Arg"
        \/ (HashableValue(m.choices) /\ HashableValue(m.default) /\ HashableValue(m.const))
Hashable(a) ==
    a.kind # "annotated" \/ \A i \in 1..Len(a.metadata) : HashableArg(a.metadata[i])

SeqFilter(s, Keep(_)) ==
    LET F[i \in 0..Len(s)] ==
            IF i = 0 THEN <<>>
            ELSE IF Keep(s[i]) THEN Append(F[i - 1], s[i]) ELSE F[i - 1]
    IN F[Len(s)]

InSeq(x, s) == \E i \in 1..Len(s) : s[i] = x

\* _is_optional_type: <<is_optional, inner_type>>
is_optional_type(a) ==
    IF a.kind = "union"
    THEN LET NotNone(x) == x # NoneType
             non_none_args == SeqFilter(a.args, NotNone)
         IN IF Len(non_none_args) = 1 /\ InSeq(NoneType, a.args)
            THEN <<TRUE, non_none_args[1]>>
            ELSE IF InSeq(NoneType, a.args)
                 THEN <<TRUE, Union(non_none_args)>>
                 ELSE <<FALSE, a>>
    ELSE <<FALSE, a>>

\* _is_literal_type
is_literal_type(a) ==
    IF a.kind = "literal" THEN <<TRUE, a.values>> ELSE <<FALSE, <<>> >>

\* _is_enum_type
is_enum_type(a) ==
    IF IsType(a) /\ IsEnumSubclass(a.cls) THEN <<TRUE, a>> ELSE <<FALSE, None>>

\* ConverterRegistry.get(type_, check_inheritance=True) on the mapping reg
FirstRegistered(reg, mro, i) ==
    LET later == {j \in i..Len(mro) : mro[j] \in DOMAIN reg}
    IN IF later = {} THEN None
       ELSE Custom(reg[mro[CHOOSE j \in later : \A k \in later : j <= k]])

\* ConverterRegistry.get as it would be with the exact match alone
registry_get_exact(reg, c) ==
    IF c \in DOMAIN reg THEN Custom(reg[c]) ELSE None

registry_get(reg, c) ==
    IF c \in DOMAIN reg THEN Custom(reg[c])
    ELSE FirstRegistered(reg, ClassMro(c), 2)

\* A registry argument: None, or the registry with its mapping.
NoRegistry == [kind |-> "None"]
Registry(reg) == [kind |-> "registry", converters |-> reg]

\* _get_converter
get_converter(a, registry) ==
    IF a = None \/ a = NoneType THEN None
    ELSE LET custom_converter ==
                 IF registry # NoRegistry /\ IsType(a)
                 THEN registry_get(registry.converters, a.cls)
                 ELSE None
         IN IF custom_converter # None THEN custom_converter
            ELSE IF IsType(a) /\ a.cls \in BASIC_TYPES THEN Ctor(a.cls)
            ELSE IF IsType(a) THEN Ctor(a.cls)
            ELSE None

\* _get_collection_element_type
get_collection_element_type(a) ==
    IF get_args(a) # <<>> THEN get_args(a)[1] ELSE None

TypeInfo(origin, args, is_optional, is_literal, literal_values, is_enum, enum_class, converter) ==
    [origin |-> origin, args |-> args, is_optional |-> is_optional,
     is_literal |-> is_literal, literal_values |-> literal_values,
     is_enum |-> is_enum, enum_class |-> enum_class, converter |-> converter]

EmptyTypeInfo == TypeInfo(None, <<>>, FALSE, FALSE, <<>>, FALSE, None, None)

\* type(v) of a literal constant
TypeOfValue(v) == Cls(v.kind)

\* The copy made for Optional[T] as it would be with the enumeration fields
\* left at their defaults
OptionalTypeInfo_drops_enum(inner_info) ==
    TypeInfo(inner_info.origin, inner_info.args, TRUE,
             inner_info.is_literal, inner_info.literal_values,
             FALSE, None, inner_info.converter)

\* The TypeInfo returned for Optional[T]: the inner resolution copied with
\* is_optional=True
OptionalTypeInfo(inner_info) ==
    TypeInfo(inner_info.origin, inner_info.args, TRUE,
             inner_info.is_literal, inner_info.literal_values,
             inner_info.is_enum, inner_info.enum_class,
             inner_info.converter)

RECURSIVE resolve_type(_, _)
resolve_type(a, registry) ==
    IF a = None THEN EmptyTypeInfo
    ELSE
    LET opt == is_optional_type(a)
        lit == is_literal_type(a)
        enum == is_enum_type(a)
        origin == get_origin(a)
        args == get_args(a)
    IN
    IF opt[1] /\ opt[2] # a
    THEN OptionalTypeInfo(resolve_type(opt[2], registry))
    ELSE IF lit[1]
    THEN LET first == IF lit[2] # <<>> THEN TypeOfValue(lit[2][1]) ELSE Cls("str")
         IN TypeInfo(first, <<>>, FALSE, TRUE, lit[2], FALSE, None, Ctor(first.cls))
    ELSE IF enum[1] /\ enum[2] # None
    THEN TypeInfo(enum[2], <<>>, FALSE, FALSE, <<>>, TRUE, enum[2], EnumConv(enum[2].cls))
    ELSE IF ~Hashable(a) THEN TypeError
    ELSE IF (origin # None /\ origin.kind = "class" /\ origin.cls \in COLLECTION_TYPES)
            \/ (IsType(a) /\ a.cls \in COLLECTION_TYPES)
    THEN LET actual_origin == IF origin # None THEN origin ELSE a
             element_type == IF args # <<>> THEN get_collection_element_type(a)
                             ELSE Cls("str")
             element_converter == get_converter(element_type, registry)
         IN TypeInfo(actual_origin, args, FALSE, FALSE, <<>>, FALSE, None,
                     element_converter)
    ELSE IF IsType(a) /\ a.cls \in BASIC_TYPES
    THEN TypeInfo(a, <<>>, FALSE, FALSE, <<>>, FALSE, None, Ctor(a.cls))
    ELSE LET converter == get_converter(a, registry)
         IN TypeInfo(IF IsType(a) THEN a ELSE origin, args, FALSE, FALSE, <<>>,
                     FALSE, None, converter)

(***************************************************************************)
(* converters/registry.py: ConverterRegistry                               *)
(***************************************************************************)
\* The classes converters are registered for, and the registered functions.
RegTypes == {"int", "Item", "object"}
ConverterIds == {"f", "g"}

\* Mutant: register keeps the converter a class already has.
register_keeps_first(reg, t, f) ==
    [c \in DOMAIN reg \cup {t} |-> IF c \in DOMAIN reg THEN reg[c] ELSE f]

\* register(type_, converter): last registration wins
register(reg, t, f) == [c \in DOMAIN reg \cup {t} |-> IF c = t THEN f ELSE reg[c]]

\* unregister(type_): <<the mapping afterwards, the value returned>>
unregister(reg, t) ==
    IF t \in DOMAIN reg
    THEN <<[c \in DOMAIN reg \ {t} |-> reg[c]], TRUE>>
    ELSE <<reg, FALSE>>

EmptyMapping == [c \in {} |-> "f"]

(***************************************************************************)
(* The annotations handed to resolve_type.                                 *)
(***************************************************************************)
StrValue(s) == [kind |-> "str", val |-> s]
IntValue(n) == [kind |-> "int", val |-> n]

ClassAnnotations == {Cls(c) : c \in BASIC_TYPES \cup COLLECTION_TYPES \cup {"Item", "SubItem", "Color"}}
ElementAnnotations == {Cls(c) : c \in BASIC_TYPES \cup {"Item", "SubItem"}}
GenericAnnotations ==
    {Generic(o, <<e>>) : o \in COLLECTION_TYPES, e \in ElementAnnotations}
        \cup {Generic("tuple", <<Cls("int"), Cls("str")>>)}
LiteralAnnotations ==
    {Literal(<<StrValue(<<"a">>), StrValue(<<"b">>)>>), Literal(<<IntValue(1), IntValue(2)>>)}
PlainAnnotations == ClassAnnotations \cup GenericAnnotations \cup LiteralAnnotations
UnionAnnotations ==
    {Optional(a) : a \in PlainAnnotations}
        \cup {Union(<<Cls("int"), Cls("str"), NoneType>>), Union(<<Cls("int"), Cls("str")>>)}
Annotations == {None} \cup PlainAnnotations \cup UnionAnnotations

Unresolved == [kind |-> "unresolved"]

TypesIdle ==
    /\ converters = EmptyMapping
    /\ annotation = None
    /\ type_info = Unresolved
    /\ registry_arg = FALSE

RoundtripIdle ==
    /\ rt_value = None
    /\ rt_token = <<>>
    /\ rt_result = None
    /\ rt_pc = "idle"

Register(t, f) ==
    /\ converters' = register(converters, t, f)
    /\ UNCHANGED <<annotation, type_info, registry_arg>>
    /\ UNCHANGED exceptTypes

Unregister(t) ==
    /\ converters' = unregister(converters, t)[1]
    /\ UNCHANGED <<annotation, type_info, registry_arg>>
    /\ UNCHANGED exceptTypes

Clear ==
    /\ converters' = EmptyMapping
    /\ UNCHANGED <<annotation, type_info, registry_arg>>
    /\ UNCHANGED exceptTypes

\* resolve_type(a, registry) with the registry, or with registry=None
ResolveType(a, with_registry) ==
    /\ annotation' = a
    /\ registry_arg' = with_registry
    /\ type_info' = resolve_type(a, IF with_registry THEN Registry(converters) ELSE NoRegistry)
    /\ UNCHANGED converters
    /\ UNCHANGED exceptTypes

(***************************************************************************)
(* Values, str(v), and what each converter does to a token.                *)
(***************************************************************************)
MaxInt == 12
MaxFracDigits == 2
MaxTextLen == 2
MaxPathParts == 2

FloatValue(m, k) == [kind |-> "float", val |-> <<m, k>>]   \* m * 10^-k
BoolValue(b) == [kind |-> "bool", val |-> b]
PathValue(abs, parts) == [kind |-> "Path", val |-> [abs |-> abs, parts |-> parts]]
ValueError == [kind |-> "ValueError"]

DigitChars == <<"0", "1", "2", "3", "4", "5", "6", "7", "8", "9">>
IsDigit(c) == \E i \in 1..10 : DigitChars[i] = c
DigitValue(c) == (CHOOSE i \in 1..10 : DigitChars[i] = c) - 1

RECURSIVE Pow10(_)
Pow10(k) == IF k = 0 THEN 1 ELSE 10 * Pow10(k - 1)

Abs(n) == IF n < 0 THEN -n ELSE n

\* decimal digits of a natural number, most significant first
RECURSIVE NatToStr(_)
NatToStr(n) ==
    IF n < 10 THEN <<DigitChars[n + 1]>>
    ELSE Append(NatToStr(n \div 10), DigitChars[(n % 10) + 1])

\* the digits of n, left-padded with zeros to width w
RECURSIVE PadDigits(_, _)
PadDigits(n, w) ==
    IF w = 0 THEN <<>> ELSE Append(PadDigits(n \div 10, w - 1), DigitChars[(n % 10) + 1])

RECURSIVE DigitsToNat(_)
DigitsToNat(s) ==
    IF s = <<>> THEN 0
    ELSE 10 * DigitsToNat(SubSeq(s, 1, Len(s) - 1)) + DigitValue(s[Len(s)])

AllDigits(s) == s # <<>> /\ \A i \in 1..Len(s) : IsDigit(s[i])

IndexOf(s, c) ==
    LET at == {i \in 1..Len(s) : s[i] = c}
    IN IF at = {} THEN 0 ELSE CHOOSE i \in at : \A j \in at : i <= j

LitTrue == <<"T", "r", "u", "e">>
LitFalse == <<"F", "a", "l", "s", "e">>

\* s.split(sep) for a one-character separator
RECURSIVE Split(_, _)
Split(s, sep) ==
    LET i == IndexOf(s, sep)
    IN IF i = 0 THEN <<s>>
       ELSE <<SubSeq(s, 1, i - 1)>> \o Split(SubSeq(s, i + 1, Len(s)), sep)

\* sep.join(parts)
RECURSIVE Join(_, _)
Join(parts, sep) ==
    IF parts = <<>> THEN <<>>
    ELSE IF Len(parts) = 1 THEN parts[1]
    ELSE parts[1] \o sep \o Join(Tail(parts), sep)

\* str(v)
ToStr(v) ==
    CASE v.kind = "int" -> (IF v.val < 0 THEN <<"-">> ELSE <<>>) \o NatToStr(Abs(v.val))
      [] v.kind = "float" ->
            LET m == v.val[1]
                k == v.val[2]
            IN (IF m < 0 THEN <<"-">> ELSE <<>>)
                   \o NatToStr(Abs(m) \div Pow10(k)) \o <<".">>
                   \o (IF k = 0 THEN <<"0">> ELSE PadDigits(Abs(m) % Pow10(k), k))
      [] v.kind = "bool" -> IF v.val THEN LitTrue ELSE LitFalse
      [] v.kind = "str" -> v.val
      [] v.kind = "Path" ->
            IF v.val.parts = <<>> THEN (IF v.val.abs THEN <<"/">> ELSE <<".">>)
            ELSE (IF v.val.abs THEN <<"/">> ELSE <<>>) \o Join(v.val.parts, <<"/">>)

\* a sign and the rest of a numeric token
SignOf(s) == IF s # <<>> /\ s[1] = "-" THEN -1 ELSE 1
Unsigned(s) == IF s # <<>> /\ s[1] \in {"-", "+"} THEN Tail(s) ELSE s

\* int(s)
int(s) ==
    IF AllDigits(Unsigned(s)) THEN IntValue(SignOf(s) * DigitsToNat(Unsigned(s)))
    ELSE ValueError

\* m * 10^-k with the trailing zeros of the fraction dropped
RECURSIVE Canonical(_, _)
Canonical(m, k) == IF k > 0 /\ m % 10 = 0 THEN Canonical(m \div 10, k - 1) ELSE <<m, k>>

\* float(s), for tokens of the form [sign] digits [. digits]
float(s) ==
    LET u == Unsigned(s)
        dot == IndexOf(u, ".")
        ip == IF dot = 0 THEN u ELSE SubSeq(u, 1, dot - 1)
        fp == IF dot = 0 THEN <<>> ELSE SubSeq(u, dot + 1, Len(u))
    IN IF (ip \o fp) # <<>> /\ \A i \in 1..Len(ip \o fp) : IsDigit((ip \o fp)[i])
       THEN LET c == Canonical(DigitsToNat(ip \o fp), Len(fp))
            IN FloatValue(SignOf(s) * c[1], c[2])
       ELSE ValueError

\* bool(s): the truth value of a string is its being non-empty
bool(s) == BoolValue(s # <<>>)

\* str(s)
str(s) == StrValue(s)

\* Path(s): empty and "." components are dropped
Path(s) ==
    LET Kept(c) == c # <<>> /\ c # <<".">>
    IN PathValue(s # <<>> /\ s[1] = "/", SeqFilter(Split(s, "/"), Kept))

\* converter(token)
Apply(conv, token) ==
    CASE conv = Ctor("int") -> int(token)
      [] conv = Ctor("float") -> float(token)
      [] conv = Ctor("bool") -> bool(token)
      [] conv = Ctor("str") -> str(token)
      [] conv = Ctor("Path") -> Path(token)
      [] conv = None -> StrValue(token)
      [] OTHER -> [kind |-> "converted", by |-> conv, token |-> token]

TextChars == {"a", "1"}
Texts == UNION {[1..n -> TextChars] : n \in 0..MaxTextLen}
PathComponents == {<<"a">>, <<"b">>, <<".", ".">>}
PathPartLists == UNION {[1..n -> PathComponents] : n \in 0..MaxPathParts}

RepresentativeValues ==
    {IntValue(n) : n \in -MaxInt..MaxInt}
        \cup {FloatValue(m, 0) : m \in -MaxInt..MaxInt}
        \cup {FloatValue(c[1], c[2]) : c \in {d \in (-MaxInt..MaxInt) \X (1..MaxFracDigits) : d[1] % 10 # 0}}
        \cup {BoolValue(b) : b \in BOOLEAN}
        \cup {StrValue(t) : t \in Texts}
        \cup {PathValue(a, p) : a \in BOOLEAN, p \in PathPartLists}

\* token = str(v)
Format ==
    /\ rt_pc = "start"
    /\ rt_token' = ToStr(rt_value)
    /\ rt_pc' = "formatted"
    /\ UNCHANGED <<rt_value, rt_result>>
    /\ UNCHANGED exceptRt

\* resolve_type(T).converter(token), T the type of v
Convert ==
    /\ rt_pc = "formatted"
    /\ rt_result' = Apply(resolve_type(Cls(rt_value.kind), NoRegistry).converter, rt_token)
    /\ rt_pc' = "converted"
    /\ UNCHANGED <<rt_value, rt_token>>
    /\ UNCHANGED exceptRt

(***************************************************************************)
(* introspection/mro.py                                                    *)
(***************************************************************************)
MaxParams == 2

\* core/config.py: the MISSING sentinel and ParameterInfo.  type_info is
\* what get_init_parameters and the decorators fill in: resolve_type of
\* the annotation when there is one.
MISSING == [kind |-> "MISSING"]

ParameterInfo(name, ann, default, has_default, kind, description) ==
    [name |-> name, annotation |-> ann,
     type_info |-> IF ann # None THEN resolve_type(ann, NoRegistry) ELSE None,
     default |-> default, has_default |-> has_default, kind |-> kind,
     description |-> description]

\* cls.__mro__ of the classes traversed: Child(Left, Right), Left(Base),
\* Right(Base), and the decorated class CLI.
HierarchyMro(c) ==
    CASE c = "Child" -> <<"Child", "Left", "Right", "Base", "object">>
      [] c = "Left" -> <<"Left", "Base", "object">>
      [] c = "Right" -> <<"Right", "Base", "object">>
      [] c = "Base" -> <<"Base", "object">>
      [] c = "CLI" -> <<"CLI", "object">>

HierarchyClasses == {"Child", "Left", "Right", "Base"}

\* the default a class gives its parameter: each class its own value
ClassDefault(c) ==
    CASE c = "Child" -> IntValue(1)
      [] c = "Left" -> IntValue(2)
      [] c = "Right" -> IntValue(3)
      [] c = "Base" -> IntValue(4)

P_name == <<"n", "a", "m", "e">>
P_value == <<"v", "a", "l", "u", "e">>

\* what one __init__ may declare: name: str, and value[: int | str] = <default>
DeclaredParams(c) ==
    {ParameterInfo(P_name, Cls("str"), MISSING, FALSE, "POSITIONAL_OR_KEYWORD", None)}
        \cup {ParameterInfo(P_value, a, ClassDefault(c), TRUE, "POSITIONAL_OR_KEYWORD", None) :
                  a \in {None, Cls("int"), Cls("str")}}

DistinctNames(ps) == \A i, j \in 1..Len(ps) : ps[i].name = ps[j].name => i = j

\* the parameter lists a class's own __init__ may have (none: no __init__)
InitSignatures(c) ==
    {ps \in UNION {[1..n -> DeclaredParams(c)] : n \in 0..MaxParams} : DistinctNames(ps)}

\* get_init_parameters(cls): the parameters of the class's own __init__
get_init_parameters(inits, c) == inits[c]

HasName(ps, n) == \E i \in 1..Len(ps) : ps[i].name = n

\* {p.name: p for p in params}[n]: the last parameter of that name
ByName(ps, n) == ps[CHOOSE i \in 1..Len(ps) : ps[i].name = n /\ \A j \in 1..Len(ps) : ps[j].name = n => j <= i]

\* Mutant: the "either is None" early return is missing.
check_type_conflict_unannotated_conflicts(child_param, parent_param, child_cls, parent_cls) ==
    IF child_param.annotation # parent_param.annotation
    THEN <<[name |-> child_param.name, child_cls |-> child_cls,
            child_type |-> child_param.annotation, parent_cls |-> parent_cls,
            parent_type |-> parent_param.annotation]>>
    ELSE <<>>

\* _check_type_conflict: the warnings it emits (none or one)
check_type_conflict(child_param, parent_param, child_cls, parent_cls) ==
    LET child_type == child_param.annotation
        parent_type == parent_param.annotation
    IN IF child_type = None \/ parent_type = None THEN <<>>
       ELSE IF child_type # parent_type
            THEN <<[name |-> child_param.name, child_cls |-> child_cls,
                    child_type |-> child_type, parent_cls |-> parent_cls,
                    parent_type |-> parent_type]>>
            ELSE <<>>

\* Mutant: an ancestor's version replaces the one already seen.
merge_parameters_parent_overrides(child_params, parent_params, child_cls, parent_cls, warn) ==
    LET F[i \in 0..Len(parent_params)] ==
            IF i = 0 THEN child_params
            ELSE LET param == parent_params[i]
                 IN IF HasName(F[i - 1], param.name)
                    THEN [k \in 1..Len(F[i - 1]) |->
                             IF F[i - 1][k].name = param.name THEN param ELSE F[i - 1][k]]
                    ELSE Append(F[i - 1], param)
    IN <<F[Len(parent_params)], <<>> >>

\* Mutant: the ancestor's unseen parameters are put in front.
merge_parameters_parent_first(child_params, parent_params, child_cls, parent_cls, warn) ==
    LET Unseen(q) == ~HasName(child_params, q.name)
    IN <<SeqFilter(parent_params, Unseen) \o child_params, <<>> >>

\* merge_parameters: <<merged, warnings emitted>>
merge_parameters(child_params, parent_params, child_cls, parent_cls, warn) ==
    LET F[i \in 0..Len(parent_params)] ==
            IF i = 0 THEN <<child_params, <<>> >>
            ELSE LET param == parent_params[i]
                     acc == F[i - 1]
                 IN IF HasName(acc[1], param.name)
                    THEN IF warn /\ HasName(child_params, param.name)
                         THEN <<acc[1], acc[2] \o check_type_conflict(
                                    ByName(child_params, param.name), param, child_cls, parent_cls)>>
                         ELSE acc
                    ELSE <<Append(acc[1], param), acc[2]>>
    IN F[Len(parent_params)]

\* Mutant: each ancestor is compared against the class before it in the
\* linearization, not against the class traversed.
traverse_mro_previous_class(inits, cls, warn) ==
    LET NotObject(c) == c # "object"
        mro == SeqFilter(HierarchyMro(cls), NotObject)
        F[i \in 1..Len(mro)] ==
            IF i = 1 THEN <<get_init_parameters(inits, mro[1]), <<>> >>
            ELSE LET m == merge_parameters(F[i - 1][1], get_init_parameters(inits, mro[i]),
                                           mro[i - 1], mro[i], warn)
                 IN <<m[1], F[i - 1][2] \o m[2]>>
    IN F[Len(mro)]

\* traverse_mro: <<result, warnings emitted>>
traverse_mro(inits, cls, warn) ==
    LET NotObject(c) == c # "object"
        mro == SeqFilter(HierarchyMro(cls), NotObject)
        F[i \in 1..Len(mro)] ==
            IF i = 1 THEN <<get_init_parameters(inits, mro[1]), <<>>, {mro[1]}>>
            ELSE LET acc == F[i - 1]
                     parent_cls == mro[i]
                     parent_params == get_init_parameters(inits, parent_cls)
                 IN IF parent_cls \in acc[3] THEN acc
                    ELSE IF parent_params # <<>>
                         THEN LET m == merge_parameters(acc[1], parent_params, mro[1], parent_cls, warn)
                              IN <<m[1], acc[2] \o m[2], acc[3] \cup {parent_cls}>>
                         ELSE <<acc[1], acc[2], acc[3] \cup {parent_cls}>>
    IN IF mro = <<>> THEN <<<<>>, <<>> >> ELSE <<F[Len(mro)][1], F[Len(mro)][2]>>

MroIdle ==
    /\ class_init = [c \in {} |-> <<>>]
    /\ warn_on_conflict = FALSE
    /\ merged = <<>>
    /\ warnings = <<>>
    /\ mro_pc = "idle"

\* traverse_mro(Child, warn_on_conflict=...)
TraverseMro ==
    /\ mro_pc = "start"
    /\ \E r \in {traverse_mro(class_init, "Child", warn_on_conflict)} :
          /\ merged' = r[1]
          /\ warnings' = r[2]
    /\ mro_pc' = "done"
    /\ UNCHANGED <<class_init, warn_on_conflict>>
    /\ UNCHANGED exceptMro

(***************************************************************************)
(* Python values and text operations the builders use.                     *)
(***************************************************************************)
ListValue(items) == [kind |-> "list", items |-> items]
\* a dict: its <<key, value>> items in insertion order
DictValue(items) == [kind |-> "dict", items |-> items]
Ellipsis == [kind |-> "Ellipsis"]

\* bool(v): the truth value of an object
Truthy(v) ==
    CASE v.kind = "None" -> FALSE
      [] v.kind = "str" -> v.val # <<>>
      [] v.kind = "int" -> v.val # 0
      [] v.kind = "bool" -> v.val
      [] v.kind \in {"list", "dict"} -> v.items # <<>>
      [] OTHER -> TRUE

\* s.startswith(p)
StartsWith(s, p) == Len(s) >= Len(p) /\ SubSeq(s, 1, Len(p)) = p

\* s.replace(old, new) for one-character old and new
Replace(s, old, new) == [i \in 1..Len(s) |-> IF s[i] = old THEN new ELSE s[i]]

\* the least index at which sub occurs in s, 0 when it does not (sub in s)
FindSub(s, sub) ==
    LET at == {i \in 1..(Len(s) - Len(sub) + 1) : SubSeq(s, i, i + Len(sub) - 1) = sub}
    IN IF at = {} THEN 0 ELSE CHOOSE i \in at : \A j \in at : i <= j

\* s.split(sep)[0]
SplitFirst(s, sep) ==
    IF FindSub(s, sep) = 0 THEN s ELSE SubSeq(s, 1, FindSub(s, sep) - 1)

Whitespace == {" ", "\n", "\t"}

\* s.strip()
RECURSIVE Strip(_)
Strip(s) ==
    IF s = <<>> THEN s
    ELSE IF s[1] \in Whitespace THEN Strip(Tail(s))
    ELSE IF s[Len(s)] \in Whitespace THEN Strip(SubSeq(s, 1, Len(s) - 1))
    ELSE s

\* repr(v)
RECURSIVE Repr(_)
Repr(v) ==
    CASE v.kind = "str" -> <<"'">> \o v.val \o <<"'">>
      [] v.kind = "None" -> <<"N", "o", "n", "e">>
      [] v.kind \in {"dict", "list"} ->
            LET Item(i) == IF v.kind = "dict"
                           THEN Repr(v.items[i][1]) \o <<":", " ">> \o Repr(v.items[i][2])
                           ELSE Repr(v.items[i])
                F[i \in 0..Len(v.items)] ==
                    IF i = 0 THEN <<>>
                    ELSE IF i = 1 THEN Item(1)
                    ELSE F[i - 1] \o <<",", " ">> \o Item(i)
            IN IF v.kind = "dict" THEN <<"{">> \o F[Len(v.items)] \o <<"}">>
               ELSE <<"[">> \o F[Len(v.items)] \o <<"]">>
      [] OTHER -> ToStr(v)

\* f"{v}"
FormatValue(v) == IF v.kind \in {"None", "dict", "list"} THEN Repr(v) ELSE ToStr(v)

(***************************************************************************)
(* core/arg.py: Arg, the explicit override carried by Annotated            *)
(***************************************************************************)
\* Arg(): every field at its default
ArgDefaults ==
    [kind |-> "Arg", short |-> None, long |-> None, help |-> None,
     metavar |-> None, choices |-> None, action |-> None, nargs |-> None,
     const |-> None, default |-> None, required |-> None, dest |-> None,
     group |-> None, mutually_exclusive |-> None, positional |-> FALSE,
     hidden |-> FALSE, skip |-> FALSE, envvar |-> None]

\* Arg.__post_init__: the Arg, or the ValueError raised
Arg_post_init(a) ==
    IF a.short # None
       /\ (~StartsWith(a.short.val, <<"-">>) \/ StartsWith(a.short.val, <<"-", "-">>))
    THEN ValueError
    ELSE IF a.short # None /\ Len(a.short.val) # 2 THEN ValueError
    ELSE IF a.long # None /\ ~StartsWith(a.long.val, <<"-", "-">>) THEN ValueError
    ELSE IF a.positional /\ (Truthy(a.short) \/ Truthy(a.long)) THEN ValueError
    ELSE IF a.hidden /\ a.positional THEN ValueError
    ELSE a

(***************************************************************************)
(* builders/arguments.py                                                   *)
(***************************************************************************)
\* core/config.py: ArgumentConfig(name) with every other field at its default
ArgumentConfig(name) ==
    [kind |-> "ArgumentConfig", name |-> name, flags |-> <<>>, type |-> None,
     default |-> None, required |-> FALSE, help |-> None, choices |-> None,
     action |-> None, nargs |-> None, metavar |-> None, dest |-> None,
     group |-> None, mutually_exclusive |-> None, positional |-> FALSE,
     hidden |-> FALSE, skip |-> FALSE]

\* core/config.py: FunctionInfo
FunctionInfo(name, parameters, description) ==
    [kind |-> "FunctionInfo", name |-> name, parameters |-> parameters,
     description |-> description]

\* the record _expand_dict_param keeps of one expanded parameter
DictExpansion(param_name, keys, key_types, default_dict) ==
    [kind |-> "DictExpansion", param_name |-> param_name, keys |-> keys,
     key_types |-> key_types, default_dict |-> default_dict]

\* core/config.py: ParserConfig; subcommands and dict_expansions are kept
\* as sequences in insertion order (of <<name, config>> pairs, and of
\* DictExpansion records).
ParserConfig(prog, description, arguments, subcommands, dict_expansions) ==
    [kind |-> "ParserConfig", prog |-> prog, description |-> description,
     epilog |-> None, arguments |-> arguments, subcommands |-> subcommands,
     add_help |-> TRUE, formatter_class |-> None,
     dict_expansions |-> dict_expansions]

\* _extract_arg_metadata
extract_arg_metadata(a) ==
    IF a # None /\ get_origin(a) = [kind |-> "Annotated"]
    THEN LET args == get_args(a)
             found == {i \in 2..Len(args) : args[i].kind = "Arg"}
         IN IF found = {} THEN None
            ELSE args[CHOOSE i \in found : \A j \in found : i <= j]
    ELSE None

\* _param_to_flag
param_to_flag(name, prefix) ==
    LET flag_name == Replace(name, "_", "-")
    IN IF Truthy(prefix)
       THEN <<"-", "-">> \o Replace(prefix.val, "_", "-") \o <<"-">> \o flag_name
       ELSE <<"-", "-">> \o flag_name

\* _get_type_action: <<action, type_converter>>
get_type_action(ti) ==
    IF ti = None THEN <<None, Ctor("str")>>
    ELSE IF ti.origin = Cls("bool") THEN <<StrValue(<<"s", "t", "o", "r", "e", "_", "t", "r", "u", "e">>), None>>
    ELSE <<None, ti.converter>>

\* _get_nargs
get_nargs(ti, param_kind) ==
    IF ti = None THEN None
    ELSE IF ti.origin \in {Cls("list"), Cls("set"), Cls("frozenset")} THEN StrValue(<<"*">>)
    ELSE IF ti.origin = Cls("tuple")
         THEN IF ti.args # <<>> /\ ti.args[Len(ti.args)] # Ellipsis
              THEN IntValue(Len(ti.args))
              ELSE StrValue(<<"*">>)
    ELSE IF param_kind = "VAR_POSITIONAL" THEN StrValue(<<"*">>)
    ELSE None

\* _get_choices
get_choices(ti) ==
    IF ti = None THEN None
    ELSE IF ti.is_literal /\ ti.literal_values # <<>> THEN ListValue(ti.literal_values)
    ELSE None

\* the member names of an enumeration class, in definition order
EnumMemberNames(c) ==
    IF c = "Color" THEN << <<"R", "E", "D">>, <<"G", "R", "E", "E", "N">> >> ELSE <<>>

\* _get_enum_metavar
get_enum_metavar(ti) ==
    IF ti = None THEN None
    ELSE IF ti.is_enum /\ ti.enum_class # None
         THEN StrValue(<<"{">> \o Join(EnumMemberNames(ti.enum_class.cls), <<",">>) \o <<"}">>)
    ELSE None

DefaultOpen == <<" ", "(", "d", "e", "f", "a", "u", "l", "t", ":", " ">>

\* _format_default_help
format_default_help(default, has_default) ==
    IF ~has_default \/ default = MISSING THEN <<>>
    ELSE IF default = None THEN <<>>
    ELSE IF default.kind = "str" THEN DefaultOpen \o Repr(default) \o <<")">>
    ELSE DefaultOpen \o FormatValue(default) \o <<")">>

\* the value-less actions as they would be with the counter left out
TypelessActions_without_count ==
    {StrValue(<<"s", "t", "o", "r", "e", "_", "t", "r", "u", "e">>),
     StrValue(<<"s", "t", "o", "r", "e", "_", "f", "a", "l", "s", "e">>),
     StrValue(<<"s", "t", "o", "r", "e", "_", "c", "o", "n", "s", "t">>)}

\* build_argument_config: the actions that take no value and so no converter
TypelessActions ==
    {StrValue(<<"s", "t", "o", "r", "e", "_", "t", "r", "u", "e">>),
     StrValue(<<"s", "t", "o", "r", "e", "_", "f", "a", "l", "s", "e">>),
     StrValue(<<"s", "t", "o", "r", "e", "_", "c", "o", "n", "s", "t">>),
     StrValue(<<"c", "o", "u", "n", "t">>)}

\* required as it would be with the positional test left out
derived_required_ignores_positional(param, is_positional) == ~param.has_default

\* build_argument_config: required, as derived from the parameter
derived_required(param, is_positional) == ~param.has_default /\ ~is_positional

\* build_argument_config
build_argument_config(param, arg_metadata, prefix) ==
    LET am == arg_metadata
        has == am # None
    IN
    IF has /\ am.skip THEN [ArgumentConfig(param.name) EXCEPT !.skip = TRUE]
    ELSE
    LET is_positional == (has /\ am.positional) \/ param.kind = "POSITIONAL_ONLY"
        long_flag == IF has /\ Truthy(am.long) THEN am.long.val
                     ELSE param_to_flag(param.name, prefix)
        flags == IF is_positional THEN <<>>
                 ELSE IF has /\ Truthy(am.short) THEN <<am.short.val, long_flag>>
                 ELSE <<long_flag>>
        ta == get_type_action(param.type_info)
        action == IF has /\ Truthy(am.action) THEN am.action ELSE ta[1]
        type_converter == IF has /\ Truthy(am.action) /\ am.action \in TypelessActions
                          THEN None ELSE ta[2]
        nargs == IF has /\ am.nargs # None THEN am.nargs
                 ELSE get_nargs(param.type_info, param.kind)
        choices == IF has /\ am.choices # None THEN am.choices
                   ELSE get_choices(param.type_info)
        required == IF has /\ am.required # None THEN am.required.val
                    ELSE derived_required(param, is_positional)
        default == IF has /\ am.default # None THEN am.default
                   ELSE IF param.has_default THEN param.default ELSE None
        help0 == IF has /\ Truthy(am.help) THEN am.help.val
                 ELSE IF Truthy(param.description) THEN param.description.val
                 ELSE <<>>
        default_suffix == format_default_help(param.default, param.has_default)
        help_text == IF help0 # <<>> /\ param.has_default /\ default_suffix # <<>>
                        /\ FindSub(help0, default_suffix) = 0
                     THEN help0 \o default_suffix
                     ELSE help0
        metavar == IF has /\ Truthy(am.metavar) THEN am.metavar
                   ELSE IF param.type_info # None THEN get_enum_metavar(param.type_info)
                   ELSE None
        dest == IF has /\ Truthy(am.dest) THEN am.dest
                ELSE IF Truthy(prefix) THEN StrValue(param.name) ELSE None
    IN [kind |-> "ArgumentConfig", name |-> param.name, flags |-> flags,
        type |-> type_converter, default |-> default, required |-> required,
        help |-> IF help_text # <<>> THEN StrValue(help_text) ELSE None,
        choices |-> choices, action |-> action, nargs |-> nargs,
        metavar |-> metavar, dest |-> dest,
        group |-> IF has THEN am.group ELSE None,
        mutually_exclusive |-> IF has THEN am.mutually_exclusive ELSE None,
        positional |-> is_positional,
        hidden |-> IF has THEN am.hidden ELSE FALSE,
        skip |-> FALSE]

\* _infer_type_converter
infer_type_converter(value) == IF value = None THEN Ctor("str") ELSE Ctor(value.kind)

\* _expand_dict_param: <<arguments, expansion>>
expand_dict_param(param, default_dict, prefix) ==
    LET items == default_dict.items
        param_kebab == Replace(param.name, "_", "-")
        Expanded(i) ==
            LET key == items[i][1].val
                value == items[i][2]
                expanded_name == param.name \o <<"_">> \o key
                key_kebab == Replace(key, "_", "-")
                flag == IF Truthy(prefix)
                        THEN <<"-", "-">> \o Replace(prefix.val, "_", "-") \o <<"-">>
                                 \o param_kebab \o <<"-">> \o key_kebab
                        ELSE <<"-", "-">> \o param_kebab \o <<"-">> \o key_kebab
                help0 == IF Truthy(param.description)
                         THEN param.description.val \o <<" ", "[">> \o key \o <<"]">>
                         ELSE param.name \o <<"[">> \o Repr(items[i][1]) \o <<"]">>
            IN [ArgumentConfig(expanded_name) EXCEPT
                    !.flags = <<flag>>,
                    !.type = infer_type_converter(value),
                    !.default = value,
                    !.required = FALSE,
                    !.help = StrValue(help0 \o DefaultOpen \o Repr(value) \o <<")">>),
                    !.dest = StrValue(expanded_name)]
    IN <<[i \in 1..Len(items) |-> Expanded(i)],
         DictExpansion(param.name,
                       [i \in 1..Len(items) |-> items[i][1].val],
                       [i \in 1..Len(items) |-> <<items[i][1].val, infer_type_converter(items[i][2])>>],
                       default_dict)>>

\* the first paragraph / first sentence a description is cut down to
\* (build_parser_config and build_subcommand_config share the rule)
first_sentence(desc) ==
    IF Truthy(desc)
    THEN LET first_para == SplitFirst(desc.val, <<"\n", "\n">>)
         IN IF FindSub(first_para, <<".", " ">>) # 0
               /\ Len(SplitFirst(first_para, <<".", " ">>)) < 200
            THEN StrValue(SplitFirst(first_para, <<".", " ">>) \o <<".">>)
            ELSE StrValue(Strip(first_para))
    ELSE desc

\* the dict-default test of build_parser_config
is_expandable_dict(param) ==
    /\ param.has_default
    /\ param.default.kind = "dict"
    /\ param.default.items # <<>>
    /\ \A i \in 1..Len(param.default.items) : param.default.items[i][1].kind = "str"

\* build_parser_config, the dict branch of its loop: the expanded arguments
\* and the expansion join <<arguments, dict_expansions>>
AddExpansion(acc, e) == <<acc[1] \o e[1], Append(acc[2], e[2])>>

\* build_parser_config, the end of its loop body: the argument is appended
\* unless it is marked to skip
AddArgument(acc, arg_config) ==
    IF ~arg_config.skip THEN <<Append(acc[1], arg_config), acc[2]>> ELSE acc

\* build_parser_config, one pass of its loop over the parameters
AddParameter(acc, param, prefix) ==
    IF param.kind \in {"VAR_POSITIONAL", "VAR_KEYWORD"} THEN acc
    ELSE IF is_expandable_dict(param)
    THEN AddExpansion(acc, expand_dict_param(param, param.default, prefix))
    ELSE AddArgument(acc, build_argument_config(
                              param, extract_arg_metadata(param.annotation), prefix))

\* build_parser_config, its loop over the first i parameters:
\* <<arguments, dict_expansions>>
RECURSIVE CollectParameters(_, _, _)
CollectParameters(ps, i, prefix) ==
    IF i = 0 THEN << <<>>, <<>> >>
    ELSE AddParameter(CollectParameters(ps, i - 1, prefix), ps[i], prefix)

\* the ParserConfig made of collected <<arguments, dict_expansions>>
ConfigOf(prog, desc, collected, subcommands) ==
    ParserConfig(prog, desc, collected[1], subcommands, collected[2])

\* build_parser_config
build_parser_config(func_info, prog, description, prefix) ==
    ConfigOf(prog,
             first_sentence(IF description # None THEN description
                            ELSE func_info.description),
             CollectParameters(func_info.parameters, Len(func_info.parameters), prefix),
             <<>>)

(***************************************************************************)
(* The functions handed to build_parser_config.                            *)
(***************************************************************************)
N_x == <<"x">>
N_my_opt == <<"m", "y", "_", "o", "p", "t">>
N_args == <<"a", "r", "g", "s">>
N_kwargs == <<"k", "w", "a", "r", "g", "s">>
N_my_cmd == <<"m", "y", "_", "c", "m", "d">>
N_x_a == <<"x", "_", "a">>

\* Arg(...) calls, the rejected ones included
ArgCandidates ==
    {[ArgDefaults EXCEPT !.positional = p, !.hidden = h, !.skip = s] : p, h, s \in BOOLEAN}
        \cup {[ArgDefaults EXCEPT !.short = StrValue(s)] :
                  s \in {<<"-", "x">>, <<"x">>, <<"-", "-", "x">>, <<"-", "x", "y">>}}
        \cup {[ArgDefaults EXCEPT !.long = StrValue(l)] :
                  l \in {<<"-", "-", "o", "t", "h", "e", "r">>, <<"o", "t", "h", "e", "r">>}}
        \cup {[ArgDefaults EXCEPT !.positional = TRUE, !.short = StrValue(<<"-", "x">>)]}
        \cup {[ArgDefaults EXCEPT !.help = StrValue(<<"h", "i">>)],
              [ArgDefaults EXCEPT !.required = BoolValue(TRUE)],
              [ArgDefaults EXCEPT !.required = BoolValue(FALSE)],
              [ArgDefaults EXCEPT !.default = IntValue(7)],
              [ArgDefaults EXCEPT !.dest = StrValue(<<"d">>)],
              [ArgDefaults EXCEPT !.group = StrValue(<<"g">>)],
              [ArgDefaults EXCEPT !.mutually_exclusive = StrValue(<<"m">>)],
              [ArgDefaults EXCEPT !.action = StrValue(<<"c", "o", "u", "n", "t">>)],
              [ArgDefaults EXCEPT !.nargs = StrValue(<<"+">>)],
              [ArgDefaults EXCEPT !.choices = ListValue(<<IntValue(1), IntValue(2)>>)],
              [ArgDefaults EXCEPT !.metavar = StrValue(<<"M">>)]}

\* the Arg objects that exist: those __post_init__ let through
ValidArgs == {a \in ArgCandidates : Arg_post_init(a) # ValueError}

BaseAnnotations ==
    {None, Cls("str"), Cls("int"), Cls("bool"), Cls("dict"), Cls("Color"),
     Generic("list", <<Cls("int")>>), Optional(Cls("int")), Optional(Cls("Color")),
     Literal(<<StrValue(<<"a">>), StrValue(<<"b">>)>>)}

\* the annotations a parameter can have; extract_function_info resolves
\* each, so those resolve_type raises on never reach build_parser_config
ParamAnnotations ==
    BaseAnnotations
        \cup {a \in {Annotated(b, <<m>>) : b \in BaseAnnotations \ {None}, m \in ValidArgs} :
                  Hashable(a)}

\* default values; MISSING stands for "no default"
ParamDefaults ==
    {MISSING, None, IntValue(5), StrValue(<<"a">>),
     DictValue(<< <<StrValue(<<"a">>), IntValue(1)>> >>),
     DictValue(<<>>),
     DictValue(<< <<IntValue(1), IntValue(2)>> >>)}

NamedKinds == {"POSITIONAL_ONLY", "POSITIONAL_OR_KEYWORD", "KEYWORD_ONLY"}

\* the parameter x in every shape, and the parameters that may follow it
SubjectParams ==
    {ParameterInfo(N_x, a, d, d # MISSING, k, None) :
         a \in ParamAnnotations, d \in ParamDefaults, k \in NamedKinds}
        \cup {ParameterInfo(N_x, a, d, d # MISSING, k, StrValue(<<"n", "o">>)) :
                  a \in BaseAnnotations, d \in ParamDefaults, k \in NamedKinds}

CompanionParams ==
    {ParameterInfo(N_my_opt, Cls("int"), IntValue(1), TRUE, "KEYWORD_ONLY", None),
     ParameterInfo(N_x_a, Cls("int"), IntValue(2), TRUE, "KEYWORD_ONLY", None),
     ParameterInfo(N_args, Cls("str"), MISSING, FALSE, "VAR_POSITIONAL", None),
     ParameterInfo(N_kwargs, None, MISSING, FALSE, "VAR_KEYWORD", None)}

\* inspect.Parameter kinds in the order a signature must list them
KindRank(k) ==
    CASE k = "POSITIONAL_ONLY" -> 0
      [] k = "POSITIONAL_OR_KEYWORD" -> 1
      [] k = "VAR_POSITIONAL" -> 2
      [] k = "KEYWORD_ONLY" -> 3
      [] k = "VAR_KEYWORD" -> 4

\* what Python accepts as a parameter list
ValidSignature(ps) ==
    /\ DistinctNames(ps)
    /\ \A i, j \in 1..Len(ps) :
           i < j => /\ KindRank(ps[i].kind) <= KindRank(ps[j].kind)
                    /\ (ps[i].kind = ps[j].kind => KindRank(ps[i].kind) \notin {2, 4})
                    /\ (KindRank(ps[j].kind) <= 1 /\ ps[i].has_default => ps[j].has_default)

Signatures ==
    {ps \in {<<s>> : s \in SubjectParams}
                \cup {<<s, c>> : s \in SubjectParams, c \in CompanionParams} :
         ValidSignature(ps)}

FunctionDescriptions ==
    {None, StrValue(<<"G", "o", ".", " ", "O", "n", " ", "\n", "\n", "x">>)}

Prefixes == {None, StrValue(N_my_cmd)}

Unbuilt == [kind |-> "unbuilt"]

ArgsIdle ==
    /\ args_func_info = None
    /\ args_prefix = None
    /\ parser_config = Unbuilt
    /\ args_pc = "idle"

ArgumentIdle ==
    /\ given_param = None
    /\ given_metadata = None
    /\ given_prefix = None
    /\ argument_config = Unbuilt

\* the parameters handed to build_argument_config directly: x with a plain
\* annotation, and a description that may already name a default
D_no == StrValue(<<"n", "o">>)
D_names_default == StrValue(<<"n">> \o DefaultOpen \o <<"5", ")">>)

GivenParams ==
    {ParameterInfo(N_x, a, d, d # MISSING, k, desc) :
         a \in BaseAnnotations, d \in ParamDefaults, k \in NamedKinds,
         desc \in {None, D_no, D_names_default}}

A_store_const == StrValue(<<"s", "t", "o", "r", "e", "_", "c", "o", "n", "s", "t">>)
A_store_false == StrValue(<<"s", "t", "o", "r", "e", "_", "f", "a", "l", "s", "e">>)

\* the Arg objects handed to it: those of ArgCandidates, one per action, and
\* some that set two fields
OverrideCandidates ==
    ArgCandidates
        \cup {[ArgDefaults EXCEPT !.action = StrValue(a)] :
                  a \in {<<"a", "p", "p", "e", "n", "d">>,
                         <<"s", "t", "o", "r", "e", "_", "c", "o", "n", "s", "t">>,
                         <<"s", "t", "o", "r", "e", "_", "t", "r", "u", "e">>,
                         <<"s", "t", "o", "r", "e", "_", "f", "a", "l", "s", "e">>}}
        \cup {[ArgDefaults EXCEPT !.default = IntValue(7), !.help = StrValue(<<"h", "i">>)],
              [ArgDefaults EXCEPT !.default = IntValue(7), !.required = BoolValue(TRUE)],
              [ArgDefaults EXCEPT !.help = D_names_default],
              [ArgDefaults EXCEPT !.positional = TRUE, !.required = BoolValue(TRUE)]}

GivenOverrides ==
    {None} \cup {a \in OverrideCandidates : Arg_post_init(a) # ValueError}

\* build_argument_config(given_param, arg_metadata=given_metadata,
\*                       prefix=given_prefix)
BuildArgumentConfig ==
    /\ argument_config = Unbuilt
    /\ given_param # None
    /\ argument_config' = build_argument_config(given_param, given_metadata, given_prefix)
    /\ UNCHANGED <<given_param, given_metadata, given_prefix>>
    /\ UNCHANGED exceptArgument

\* build_parser_config(args_func_info, prefix=args_prefix)
BuildParserConfig ==
    /\ args_pc = "start"
    /\ parser_config' = build_parser_config(args_func_info, None, None, args_prefix)
    /\ args_pc' = "done"
    /\ UNCHANGED <<args_func_info, args_prefix>>
    /\ UNCHANGED exceptArgs

(***************************************************************************)
(* builders/parser.py: the ArgumentParser a ParserConfig is built into,    *)
(* and what that parser does with a list of command-line tokens.           *)
(***************************************************************************)
Absent == [kind |-> "absent"]
SUPPRESS == [kind |-> "SUPPRESS"]
SystemExit == [kind |-> "SystemExit"]

\* ParserBuilder._build_add_argument_kwargs: the keywords of add_argument
build_add_argument_kwargs(config) ==
    [type |-> IF config.type # None THEN config.type ELSE Absent,
     default |-> IF config.default # None THEN config.default ELSE Absent,
     required |-> IF ~config.positional /\ config.required THEN BoolValue(TRUE) ELSE Absent,
     help |-> IF Truthy(config.help)
              THEN (IF config.hidden THEN SUPPRESS ELSE config.help)
              ELSE IF config.hidden THEN SUPPRESS ELSE Absent,
     choices |-> IF config.choices # None THEN config.choices ELSE Absent,
     action |-> IF Truthy(config.action) THEN config.action ELSE Absent,
     nargs |-> IF config.nargs # None THEN config.nargs ELSE Absent,
     metavar |-> IF Truthy(config.metavar) THEN config.metavar ELSE Absent,
     dest |-> IF Truthy(config.dest) /\ ~config.positional THEN config.dest ELSE Absent]

\* ParserBuilder._add_argument: the add_argument call made for one
\* ArgumentConfig, with the group it is made on
add_argument(config) ==
    [names |-> IF config.positional THEN <<config.name>> ELSE config.flags,
     positional |-> config.positional,
     kwargs |-> build_add_argument_kwargs(config),
     exclusive_group |-> IF Truthy(config.mutually_exclusive)
                         THEN config.mutually_exclusive ELSE None,
     group |-> IF ~Truthy(config.mutually_exclusive) /\ Truthy(config.group)
               THEN config.group ELSE None]

NotSkipped(config) == ~config.skip

\* the add_argument calls for a list of ArgumentConfigs
add_arguments(arguments) ==
    LET kept == SeqFilter(arguments, NotSkipped)
    IN [i \in 1..Len(kept) |-> add_argument(kept[i])]

\* ParserBuilder._add_subcommands: one sub-parser per subcommand
add_subcommands(subcommands) ==
    [i \in 1..Len(subcommands) |->
        [name |-> subcommands[i][1],
         description |-> subcommands[i][2].description,
         actions |-> add_arguments(subcommands[i][2].arguments)]]

\* ParserBuilder.build / build_parser; id is the identity of the object
build_parser(config, id) ==
    [kind |-> "ArgumentParser", id |-> id, prog |-> config.prog,
     description |-> config.description, epilog |-> config.epilog,
     add_help |-> config.add_help,
     formatter_class |-> IF Truthy(config.formatter_class)
                         THEN config.formatter_class ELSE None,
     actions |-> add_arguments(config.arguments),
     subparsers |-> IF config.subcommands # <<>>
                    THEN add_subcommands(config.subcommands) ELSE <<>>]

A_store_true == StrValue(<<"s", "t", "o", "r", "e", "_", "t", "r", "u", "e">>)
A_count == StrValue(<<"c", "o", "u", "n", "t">>)

Namespace(attrs) == [kind |-> "Namespace", attrs |-> attrs]
EmptyAttrs == [d \in {} |-> None]
SetAttr(attrs, name, value) ==
    [d \in DOMAIN attrs \cup {name} |-> IF d = name THEN value ELSE attrs[d]]
\* getattr(namespace, name, None)
GetAttr(namespace, name) ==
    IF name \in DOMAIN namespace.attrs THEN namespace.attrs[name] ELSE None

\* the attribute an add_argument call stores to
ActionDest(call) ==
    IF call.positional THEN call.names[1]
    ELSE IF call.kwargs.dest # Absent THEN call.kwargs.dest.val
    ELSE LET long == {i \in 1..Len(call.names) : StartsWith(call.names[i], <<"-", "-">>)}
             first == IF long = {} THEN call.names[1]
                      ELSE call.names[CHOOSE i \in long : \A j \in long : i <= j]
             Dashless(s) == IF StartsWith(s, <<"-", "-">>) THEN SubSeq(s, 3, Len(s))
                            ELSE SubSeq(s, 2, Len(s))
         IN Replace(Dashless(first), "-", "_")

\* the value the attribute has before any token is read
ActionDefault(call) ==
    IF call.kwargs.default # Absent THEN call.kwargs.default
    ELSE IF call.kwargs.action = A_store_true THEN BoolValue(FALSE)
    ELSE None

InitialAttrs(actions) ==
    LET F[i \in 0..Len(actions)] ==
            IF i = 0 THEN EmptyAttrs
            ELSE IF ActionDest(actions[i]) \in DOMAIN F[i - 1]
                 THEN F[i - 1]
                 ELSE SetAttr(F[i - 1], ActionDest(actions[i]), ActionDefault(actions[i]))
    IN F[Len(actions)]

\* a token that is read as an option
IsOptionToken(tok) == Len(tok) > 1 /\ tok[1] = "-"

\* the action a token selects: its index, 0 when the token is no option of
\* this parser, -1 when it abbreviates more than one long option
MatchOption(actions, tok) ==
    LET exact == {i \in 1..Len(actions) :
                      ~actions[i].positional /\ InSeq(tok, actions[i].names)}
        abbreviated == {i \in 1..Len(actions) :
                            /\ ~actions[i].positional
                            /\ \E k \in 1..Len(actions[i].names) :
                                   StartsWith(actions[i].names[k], tok)}
    IN IF exact # {} THEN CHOOSE i \in exact : \A j \in exact : i <= j
       ELSE IF StartsWith(tok, <<"-", "-">>) /\ Cardinality(abbreviated) = 1
            THEN CHOOSE i \in abbreviated : TRUE
       ELSE IF StartsWith(tok, <<"-", "-">>) /\ Cardinality(abbreviated) > 1 THEN -1
       ELSE 0

\* the value a token becomes: type(token), then the choices test
CheckChoices(call, v) ==
    IF v = ValueError THEN ValueError
    ELSE IF call.kwargs.choices # Absent /\ ~InSeq(v, call.kwargs.choices.items)
         THEN ValueError
    ELSE v

GetValue(call, tok) ==
    CheckChoices(call, IF call.kwargs.type # Absent THEN Apply(call.kwargs.type, tok)
                       ELSE StrValue(tok))

\* the number of leading tokens that are not options
RECURSIVE LeadingArgs(_)
LeadingArgs(tokens) ==
    IF tokens = <<>> \/ IsOptionToken(Head(tokens)) THEN 0
    ELSE 1 + LeadingArgs(Tail(tokens))

\* how many tokens an option takes given n available: -1 when n will not do
TakeCount(call, n) ==
    LET nargs == call.kwargs.nargs
    IN IF nargs = Absent THEN (IF n >= 1 THEN 1 ELSE -1)
       ELSE IF nargs = StrValue(<<"*">>) THEN n
       ELSE IF nargs = StrValue(<<"+">>) THEN (IF n >= 1 THEN n ELSE -1)
       ELSE IF nargs = StrValue(<<"?">>) THEN (IF n >= 1 THEN 1 ELSE 0)
       ELSE IF nargs.kind = "int" THEN (IF n >= nargs.val THEN nargs.val ELSE -1)
       ELSE -1

\* the end of one parser's run: required options and positionals must have
\* been given, and an untouched string default goes through type
FinishParse(actions, attrs, seen) ==
    LET missing == {i \in 1..Len(actions) :
                        /\ i \notin seen
                        /\ \/ actions[i].kwargs.required = BoolValue(TRUE)
                           \/ /\ actions[i].positional
                              /\ actions[i].kwargs.nargs \notin {StrValue(<<"*">>), StrValue(<<"?">>)}}
        Converted(i) ==
            IF actions[i].kwargs.default # Absent /\ actions[i].kwargs.default.kind = "str"
               /\ actions[i].kwargs.type # Absent
            THEN Apply(actions[i].kwargs.type, actions[i].kwargs.default.val)
            ELSE ActionDefault(actions[i])
        F[i \in 0..Len(actions)] ==
            IF i = 0 THEN Namespace(attrs)
            ELSE IF F[i - 1] = SystemExit \/ i \in seen THEN F[i - 1]
            ELSE IF \E j \in seen : ActionDest(actions[j]) = ActionDest(actions[i])
                 THEN F[i - 1]
            ELSE IF Converted(i) = ValueError THEN SystemExit
            ELSE Namespace(SetAttr(F[i - 1].attrs, ActionDest(actions[i]), Converted(i)))
    IN IF missing # {} THEN SystemExit ELSE F[Len(actions)]

\* two options of one mutually exclusive group may not both be given
Excludes(actions, seen, i) ==
    /\ actions[i].exclusive_group # None
    /\ \E j \in seen : j # i /\ actions[j].exclusive_group = actions[i].exclusive_group

\* one parser's run over its tokens: a Namespace, or SystemExit
RECURSIVE ParseTokens(_, _, _, _, _)

\* the least member of a set of indices
FirstOf(S) == CHOOSE i \in S : \A j \in S : i <= j

\* the positionals not yet filled
Unfilled(actions, seen) == {i \in 1..Len(actions) : actions[i].positional /\ i \notin seen}

\* the value a count action stores
Counted(attrs, dest) == IntValue(IF attrs[dest] = None THEN 1 ELSE attrs[dest].val + 1)

\* option m stores the n values it took from rest; the run goes on behind them
StoreValues(actions, subparsers, rest, attrs, seen, m, n, values) ==
    IF InSeq(ValueError, values) THEN SystemExit
    ELSE ParseTokens(actions, subparsers, SubSeq(rest, n + 1, Len(rest)),
                     SetAttr(attrs, ActionDest(actions[m]),
                             IF actions[m].kwargs.nargs = Absent THEN values[1]
                             ELSE ListValue(values)),
                     seen \cup {m})

\* option m takes n of the tokens that follow it
TakeValues(actions, subparsers, rest, attrs, seen, m, n) ==
    IF n < 0 THEN SystemExit
    ELSE StoreValues(actions, subparsers, rest, attrs, seen, m, n,
                     [k \in 1..n |-> GetValue(actions[m], rest[k])])

\* the token before rest selected option m
ParseOption(actions, subparsers, rest, attrs, seen, m) ==
    IF m <= 0 \/ Excludes(actions, seen, m) THEN SystemExit
    ELSE IF actions[m].kwargs.action = A_store_true
    THEN ParseTokens(actions, subparsers, rest,
                     SetAttr(attrs, ActionDest(actions[m]), BoolValue(TRUE)),
                     seen \cup {m})
    ELSE IF actions[m].kwargs.action = A_count
    THEN ParseTokens(actions, subparsers, rest,
                     SetAttr(attrs, ActionDest(actions[m]),
                             Counted(attrs, ActionDest(actions[m]))),
                     seen \cup {m})
    ELSE TakeValues(actions, subparsers, rest, attrs, seen, m,
                    TakeCount(actions[m], LeadingArgs(rest)))

\* the token before rest became the value v of positional p
ParsePositional(actions, subparsers, rest, attrs, seen, p, v) ==
    IF v = ValueError THEN SystemExit
    ELSE ParseTokens(actions, subparsers, rest,
                     SetAttr(attrs, ActionDest(actions[p]), v), seen \cup {p})

\* the namespace of a run that went into a sub-parser: the sub-parser's
\* attributes override the parent's
MergeNamespaces(outer, inner, tok) ==
    IF outer = SystemExit \/ inner = SystemExit THEN SystemExit
    ELSE Namespace(
             [d \in DOMAIN outer.attrs \cup DOMAIN inner.attrs \cup {<<"c", "o", "m", "m", "a", "n", "d">>} |->
                 IF d \in DOMAIN inner.attrs THEN inner.attrs[d]
                 ELSE IF d = <<"c", "o", "m", "m", "a", "n", "d">> THEN StrValue(tok)
                 ELSE outer.attrs[d]])

\* the token tok before rest names the sub-parser sub
ParseSubcommand(actions, rest, attrs, seen, sub, tok) ==
    MergeNamespaces(FinishParse(actions, attrs, seen),
                    ParseTokens(sub.actions, <<>>, rest, InitialAttrs(sub.actions), {}),
                    tok)

\* the sub-parsers a token names
Chosen(subparsers, tok) == {i \in 1..Len(subparsers) : subparsers[i].name = tok}

ParseTokens(actions, subparsers, tokens, attrs, seen) ==
    IF tokens = <<>> THEN FinishParse(actions, attrs, seen)
    ELSE IF IsOptionToken(Head(tokens))
    THEN ParseOption(actions, subparsers, Tail(tokens), attrs, seen,
                     MatchOption(actions, Head(tokens)))
    ELSE IF Unfilled(actions, seen) # {}
    THEN ParsePositional(actions, subparsers, Tail(tokens), attrs, seen,
                         FirstOf(Unfilled(actions, seen)),
                         GetValue(actions[FirstOf(Unfilled(actions, seen))], Head(tokens)))
    ELSE IF Chosen(subparsers, Head(tokens)) = {} THEN SystemExit
    ELSE ParseSubcommand(actions, Tail(tokens), attrs, seen,
                         subparsers[FirstOf(Chosen(subparsers, Head(tokens)))],
                         Head(tokens))

\* parser.parse_args(argv): a Namespace, or SystemExit
parse_args(parser, argv) ==
    LET start == IF parser.subparsers # <<>>
                 THEN SetAttr(InitialAttrs(parser.actions), <<"c", "o", "m", "m", "a", "n", "d">>, None)
                 ELSE InitialAttrs(parser.actions)
    IN ParseTokens(parser.actions, parser.subparsers, argv, start, {})

(***************************************************************************)
(* builders/subcommands.py                                                 *)
(***************************************************************************)
\* A class as introspection sees it: its name and docstring, whether it
\* defines __init__ itself and with which parameters (self left out), its
\* public methods in dir() order, each as extract_method_info returns it.
ClassDecl(id, name, doc, has_init, init, methods) ==
    [id |-> id, name |-> name, doc |-> doc, has_init |-> has_init,
     init |-> init, methods |-> methods]

\* get_inherited_function_info
get_inherited_function_info(cls, warn) ==
    FunctionInfo(cls.name,
                 traverse_mro([c \in {cls.id} |-> cls.init], cls.id, warn)[1],
                 cls.doc)

\* extract_init_info: None for a class left with object.__init__
extract_init_info(cls) ==
    IF ~cls.has_init THEN None
    ELSE FunctionInfo(<<"_", "_", "i", "n", "i", "t", "_", "_">>, cls.init, None)

\* extract_methods: the public methods by name, in dir() order
extract_methods(cls) == [i \in 1..Len(cls.methods) |-> cls.methods[i].name]

\* build_subcommand_config, its loop over the public methods: one
\* <<subcommand name, ParserConfig>> per method, never prefixed
method_subcommands(cls) ==
    [i \in 1..Len(cls.methods) |->
        <<Replace(cls.methods[i].name, "_", "-"),
          build_parser_config(cls.methods[i], None, None, None)>>]

\* the <<arguments, dict_expansions>> of a ParserConfig
OptionsOf(config) == <<config.arguments, config.dict_expansions>>

\* build_subcommand_config, the global options: the constructor's
\* <<arguments, dict_expansions>>.  They always get the class name as prefix:
\* the function takes no prefix setting.
init_options(cls, traverse_mro_, init_info) ==
    IF (IF traverse_mro_ THEN init_info.parameters # <<>> ELSE init_info # None)
    THEN OptionsOf(build_parser_config(init_info, None, None, StrValue(cls.name)))
    ELSE << <<>>, <<>> >>

\* build_subcommand_config
build_subcommand_config(cls, prog, description, traverse_mro_, warn) ==
    ConfigOf(prog,
             first_sentence(IF description # None THEN description ELSE cls.doc),
             init_options(cls, traverse_mro_,
                          IF traverse_mro_ THEN get_inherited_function_info(cls, warn)
                          ELSE extract_init_info(cls)),
             method_subcommands(cls))

\* dict.get on the subcommands of a ParserConfig
GetSubcommand(config, name) ==
    LET at == {i \in 1..Len(config.subcommands) : config.subcommands[i][1] = name}
    IN IF at = {} THEN None ELSE config.subcommands[CHOOSE i \in at : TRUE][2]

(***************************************************************************)
(* decorator.py: WargsWrapper                                              *)
(***************************************************************************)
MaxBuilds == 3

Kwargs(items) == [kind |-> "kwargs", items |-> items]
\* what calling the wrapped callable with these arguments amounts to
Called(target, kwargs) == [kind |-> "called", target |-> target, kwargs |-> kwargs]

\* the dict as it would be with the namespace never read
Reconstruct_default_only(expansion, namespace) == expansion.default_dict

\* the dict an expansion's keys are put back into: the default mapping
\* with every key for which the namespace holds a value replaced
Reconstruct(expansion, namespace) ==
    DictValue([i \in 1..Len(expansion.default_dict.items) |->
        LET key == expansion.default_dict.items[i][1]
            value == GetAttr(namespace, expansion.param_name \o <<"_">> \o key.val)
        IN IF value # None THEN <<key, value>> ELSE expansion.default_dict.items[i]])

ExpansionOf(config, name) ==
    LET at == {i \in 1..Len(config.dict_expansions) :
                   config.dict_expansions[i].param_name = name}
    IN IF at = {} THEN None ELSE config.dict_expansions[CHOOSE i \in at : TRUE]

\* WargsWrapper.__init__; builds counts the runs of _build_parser
WargsWrapper(func, prog, description, add_help, formatter_class, completion, prefix) ==
    [func |-> func, prog |-> prog, description |-> description,
     add_help |-> add_help, formatter_class |-> formatter_class,
     completion |-> completion, prefix |-> prefix,
     parser |-> None, func_info |-> None, parser_config |-> None, builds |-> 0]

\* _build_parser, "Determine prefix for arguments"
arg_prefix_of(w) ==
    IF w.prefix = BoolValue(FALSE) THEN None
    ELSE IF w.prefix = BoolValue(TRUE) THEN StrValue(w.func.name)
    ELSE StrValue(ToStr(w.prefix))

\* _build_parser, "Apply options": the built configuration with the
\* wrapper's formatter_class and add_help
apply_options(w, built) ==
    [built EXCEPT !.formatter_class = IF Truthy(w.formatter_class)
                                      THEN w.formatter_class ELSE @,
                  !.add_help = w.add_help]

\* WargsWrapper._build_parser, its assignments to the wrapper
WargsWrapper_store(w, config) ==
    [w EXCEPT !.func_info = w.func, !.parser_config = config,
              !.parser = build_parser(config, w.builds + 1),
              !.builds = @ + 1]

\* WargsWrapper._build_parser: the wrapper afterwards
WargsWrapper_build_parser(w) ==
    WargsWrapper_store(w, apply_options(w,
        build_parser_config(w.func, w.prog, w.description, arg_prefix_of(w))))

\* the parser property's return: <<the wrapper, the parser it holds>>
held_parser(w) == <<w, w.parser>>

\* Mutant: the parser property builds on every access.
WargsWrapper_parser_rebuilds(w) ==
    held_parser(WargsWrapper_build_parser(w))

\* WargsWrapper.parser: <<the wrapper afterwards, the parser returned>>
WargsWrapper_parser(w) ==
    IF w.parser = None THEN held_parser(WargsWrapper_build_parser(w)) ELSE held_parser(w)

\* self.parser.parse_args(args), given what self.parser returned
parse_with(p, args) == <<p[1], parse_args(p[2], args)>>

\* WargsWrapper.parse_args: <<the wrapper afterwards, the result>>
WargsWrapper_parse_args(w, args) == parse_with(WargsWrapper_parser(w), args)

\* the kwargs as they would be with the variadic parameters not skipped
function_kwargs_keeps_variadic(w1, namespace) ==
    LET config == w1.parser_config
        ps == w1.func_info.parameters
        expanded == {config.dict_expansions[i].param_name :
                         i \in 1..Len(config.dict_expansions)}
        plain == {ps[i].name : i \in {j \in 1..Len(ps) :
                      /\ ps[j].name \notin expanded
                      /\ (GetAttr(namespace, ps[j].name) # None \/ ~ps[j].has_default)}}
    IN <<w1, Kwargs([n \in expanded \cup plain |->
                        IF n \in expanded
                        THEN Reconstruct(ExpansionOf(config, n), namespace)
                        ELSE GetAttr(namespace, n)])>>

\* WargsWrapper._convert_namespace_to_kwargs behind its lazy build
function_kwargs(w1, namespace) ==
    LET config == w1.parser_config
        ps == w1.func_info.parameters
        expanded == {config.dict_expansions[i].param_name :
                         i \in 1..Len(config.dict_expansions)}
        plain == {ps[i].name : i \in {j \in 1..Len(ps) :
                      /\ ps[j].kind \notin {"VAR_POSITIONAL", "VAR_KEYWORD"}
                      /\ ps[j].name \notin expanded
                      /\ (GetAttr(namespace, ps[j].name) # None \/ ~ps[j].has_default)}}
    IN <<w1, Kwargs([n \in expanded \cup plain |->
                        IF n \in expanded
                        THEN Reconstruct(ExpansionOf(config, n), namespace)
                        ELSE GetAttr(namespace, n)])>>

\* WargsWrapper._convert_namespace_to_kwargs:
\* <<the wrapper afterwards, the kwargs>>
WargsWrapper_convert_namespace_to_kwargs(w, namespace) ==
    function_kwargs(IF w.func_info = None THEN WargsWrapper_build_parser(w) ELSE w,
                    namespace)

\* WargsWrapper.run, self._func(**kwargs)
call_func(w, c) == <<c[1], Called(w.func.name, c[2])>>

\* WargsWrapper.run behind its parse_args call
run_parsed(w, p) ==
    IF p[2] = SystemExit THEN p
    ELSE call_func(w, WargsWrapper_convert_namespace_to_kwargs(p[1], p[2]))

\* WargsWrapper.run (completion off): <<the wrapper afterwards, the result>>
WargsWrapper_run(w, args) == run_parsed(w, WargsWrapper_parse_args(w, args))

(***************************************************************************)
(* decorator.py: WargsClassWrapper                                         *)
(***************************************************************************)
\* WargsClassWrapper.__init__
WargsClassWrapper(cls, prog, description, add_help, formatter_class, traverse_mro_, completion, prefix) ==
    [cls |-> cls, prog |-> prog, description |-> description,
     add_help |-> add_help, formatter_class |-> formatter_class,
     traverse_mro |-> traverse_mro_, completion |-> completion,
     prefix |-> prefix, parser |-> None, parser_config |-> None,
     methods |-> <<>>, builds |-> 0]

\* WargsClassWrapper._build_parser, its assignments to the wrapper
WargsClassWrapper_store(w, config) ==
    [w EXCEPT !.parser_config = config,
              !.parser = build_parser(config, w.builds + 1),
              !.methods = extract_methods(w.cls),
              !.builds = @ + 1]

\* WargsClassWrapper._build_parser: the wrapper afterwards.  The prefix
\* setting is handed to build_subcommand_config, which has no use for it.
WargsClassWrapper_build_parser(w) ==
    WargsClassWrapper_store(w, apply_options(w,
        build_subcommand_config(w.cls, w.prog, w.description, w.traverse_mro, TRUE)))

\* WargsClassWrapper.parser: <<the wrapper afterwards, the parser returned>>
WargsClassWrapper_parser(w) ==
    IF w.parser = None THEN held_parser(WargsClassWrapper_build_parser(w))
    ELSE held_parser(w)

\* WargsClassWrapper.parse_args
WargsClassWrapper_parse_args(w, args) == parse_with(WargsClassWrapper_parser(w), args)

\* WargsClassWrapper._get_init_kwargs behind its lazy build
init_kwargs(w1, namespace) ==
    LET config == w1.parser_config
        init == IF w1.cls.has_init THEN w1.cls.init ELSE <<>>
        valid_params == {init[i].name : i \in 1..Len(init)}
        has_var_keyword == \E i \in 1..Len(init) : init[i].kind = "VAR_KEYWORD"
        Accepted(n) == n \in valid_params \/ has_var_keyword
        expanded == {config.dict_expansions[i].param_name :
                         i \in {j \in 1..Len(config.dict_expansions) :
                                    Accepted(config.dict_expansions[j].param_name)}}
        expanded_arg_names ==
            UNION {{config.dict_expansions[i].param_name \o <<"_">> \o config.dict_expansions[i].keys[k] :
                        k \in 1..Len(config.dict_expansions[i].keys)} :
                   i \in 1..Len(config.dict_expansions)}
        plain == {config.arguments[i].name : i \in {j \in 1..Len(config.arguments) :
                      /\ config.arguments[j].name \notin expanded_arg_names
                      /\ Accepted(config.arguments[j].name)
                      /\ GetAttr(namespace, config.arguments[j].name) # None}}
    IN <<w1, Kwargs([n \in expanded \cup plain |->
                        IF n \in plain THEN GetAttr(namespace, n)
                        ELSE Reconstruct(ExpansionOf(config, n), namespace)])>>

\* WargsClassWrapper._get_init_kwargs: <<the wrapper afterwards, the kwargs>>
WargsClassWrapper_get_init_kwargs(w, namespace) ==
    init_kwargs(IF w.parser_config = None THEN WargsClassWrapper_build_parser(w) ELSE w,
                namespace)

\* WargsClassWrapper._get_method_kwargs behind its lazy build
method_kwargs(w1, namespace, method_name) ==
    LET subconfig == GetSubcommand(w1.parser_config, method_name)
        given == IF subconfig = None THEN {}
                 ELSE {subconfig.arguments[i].name :
                           i \in {j \in 1..Len(subconfig.arguments) :
                                      GetAttr(namespace, subconfig.arguments[j].name) # None}}
    IN <<w1, Kwargs([n \in given |-> GetAttr(namespace, n)])>>

\* WargsClassWrapper._get_method_kwargs
WargsClassWrapper_get_method_kwargs(w, namespace, method_name) ==
    method_kwargs(IF w.parser_config = None THEN WargsClassWrapper_build_parser(w) ELSE w,
                  namespace, method_name)

\* cls(**kwargs): the constructor call, or the TypeError of a call that
\* leaves out a parameter without default
Instantiate(cls, kwargs) ==
    LET init == IF cls.has_init THEN cls.init ELSE <<>>
    IN IF \E i \in 1..Len(init) :
              /\ ~init[i].has_default
              /\ init[i].kind \notin {"VAR_POSITIONAL", "VAR_KEYWORD"}
              /\ init[i].name \notin DOMAIN kwargs.items
       THEN TypeError
       ELSE Called(cls.name, kwargs)

\* WargsClassWrapper.run, method(**method_kwargs): the constructor call and
\* the method call made on the instance
invoke_method(instance, command, m) ==
    <<m[1], [kind |-> "ran", instance |-> instance,
             method |-> Replace(command.val, "-", "_"),
             kwargs |-> m[2]]>>

\* WargsClassWrapper.run behind its _get_init_kwargs call
run_instance(w, namespace, command, i) ==
    IF Instantiate(w.cls, i[2]) = TypeError THEN <<i[1], TypeError>>
    ELSE invoke_method(Instantiate(w.cls, i[2]), command,
                       WargsClassWrapper_get_method_kwargs(i[1], namespace, command.val))

\* WargsClassWrapper.run given the subcommand of the namespace: without one
\* it prints the help and returns None
run_command(w, p, command) ==
    IF command = None THEN <<p[1], None>>
    ELSE run_instance(w, p[2], command, WargsClassWrapper_get_init_kwargs(p[1], p[2]))

\* WargsClassWrapper.run behind its parse_args call
run_class_parsed(w, p) ==
    IF p[2] = SystemExit THEN p
    ELSE run_command(w, p, GetAttr(p[2], <<"c", "o", "m", "m", "a", "n", "d">>))

\* WargsClassWrapper.run (completion off): <<the wrapper afterwards, the
\* result>>
WargsClassWrapper_run(w, args) ==
    run_class_parsed(w, WargsClassWrapper_parse_args(w, args))

\* WargsClassWrapper.__call__, cls(**init_kwargs)
instance_from(w, i) == <<i[1], Instantiate(w.cls, i[2])>>

\* WargsClassWrapper.__call__ behind its parse_args call
call_parsed(w, p) ==
    IF p[2] = SystemExit THEN p
    ELSE instance_from(w, WargsClassWrapper_get_init_kwargs(p[1], p[2]))

\* WargsClassWrapper.__call__() without arguments: the instance made from
\* the command line
WargsClassWrapper_call(w, argv) ==
    call_parsed(w, WargsClassWrapper_parse_args(w, argv))

(***************************************************************************)
(* The decorated callables and the command lines they are run on.          *)
(***************************************************************************)
N_name == <<"n", "a", "m", "e">>
N_count == <<"c", "o", "u", "n", "t">>
N_opts == <<"o", "p", "t", "s">>
N_greet == <<"g", "r", "e", "e", "t">>
N_verbose == <<"v", "e", "r", "b", "o", "s", "e">>
N_log_level == <<"l", "o", "g", "_", "l", "e", "v", "e", "l">>
N_run == <<"r", "u", "n">>
N_add_item == <<"a", "d", "d", "_", "i", "t", "e", "m">>
N_command == <<"c", "o", "m", "m", "a", "n", "d">>

\* the default of greet's opts
GreetOpts ==
    DictValue(<< <<StrValue(<<"a">>), IntValue(1)>>, <<StrValue(<<"b">>), StrValue(<<"x">>)>> >>)

\* def greet(name: str, count: int = 1, opts: dict = {"a": 1, "b": "x"},
\*           *args: str, **kwargs)
Greet ==
    FunctionInfo(N_greet,
        <<ParameterInfo(N_name, Cls("str"), MISSING, FALSE, "POSITIONAL_OR_KEYWORD", None),
          ParameterInfo(N_count, Cls("int"), IntValue(1), TRUE, "POSITIONAL_OR_KEYWORD", None),
          ParameterInfo(N_opts, Cls("dict"), GreetOpts, TRUE, "POSITIONAL_OR_KEYWORD", None),
          ParameterInfo(N_args, Cls("str"), MISSING, FALSE, "VAR_POSITIONAL", None),
          ParameterInfo(N_kwargs, None, MISSING, FALSE, "VAR_KEYWORD", None)>>,
        StrValue(<<"G", "r", "e", "e", "t", " ", "s", "o", "m", "e", "o", "n", "e", ".">>))

\* class CLI:
\*     def __init__(self, verbose: bool = False, log_level: int = 0)
\*     def add_item(self, name: str)
\*     def run(self)
CLI ==
    ClassDecl("CLI", <<"C", "L", "I">>, None, TRUE,
        <<ParameterInfo(N_verbose, Cls("bool"), BoolValue(FALSE), TRUE, "POSITIONAL_OR_KEYWORD", None),
          ParameterInfo(N_log_level, Cls("int"), IntValue(0), TRUE, "POSITIONAL_OR_KEYWORD", None)>>,
        <<FunctionInfo(N_add_item,
              <<ParameterInfo(N_name, Cls("str"), MISSING, FALSE, "POSITIONAL_OR_KEYWORD", None)>>,
              None),
          FunctionInfo(N_run, <<>>, None)>>)

\* the prefix settings of the decorator: False, True, a string
PrefixSettings == {BoolValue(FALSE), BoolValue(TRUE), StrValue(<<"a", "p", "p">>)}

FuncArgvs ==
    {<<>>,
     <<<<"-", "-", "n", "a", "m", "e">>, <<"a">>>>,
     <<<<"-", "-", "n", "a", "m", "e">>, <<"a">>, <<"-", "-", "c", "o", "u", "n", "t">>, <<"5">>>>,
     <<<<"-", "-", "n", "a", "m", "e">>, <<"a">>, <<"-", "-", "c", "o", "u", "n", "t">>, <<"x">>>>,
     <<<<"-", "-", "n", "a">>, <<"a">>, <<"-", "-", "o", "p", "t", "s", "-", "a">>, <<"2">>>>,
     <<<<"-", "-", "n", "a", "m", "e">>, <<"a">>, <<"-", "-", "o", "p", "t", "s", "-", "b">>, <<"y">>>>,
     <<<<"-", "-", "n", "a", "m", "e">>, <<"a">>, <<"-", "-", "o", "p", "t", "s", "-", "a">>, <<"y">>>>,
     <<<<"-", "-", "g", "r", "e", "e", "t", "-", "n", "a", "m", "e">>, <<"a">>>>,
     <<<<"-", "-", "a", "p", "p", "-", "n", "a", "m", "e">>, <<"a">>, <<"-", "-", "a", "p", "p", "-", "o", "p", "t", "s", "-", "a">>, <<"2">>>>}

ClassArgvs ==
    {<<>>,
     <<<<"r", "u", "n">>>>,
     <<<<"-", "-", "v", "e", "r", "b", "o", "s", "e">>, <<"r", "u", "n">>>>,
     <<<<"-", "-", "C", "L", "I", "-", "v", "e", "r", "b", "o", "s", "e">>, <<"r", "u", "n">>>>,
     <<<<"-", "-", "l", "o", "g", "-", "l", "e", "v", "e", "l">>, <<"3">>, <<"r", "u", "n">>>>,
     <<<<"-", "-", "C", "L", "I", "-", "l", "o", "g", "-", "l", "e", "v", "e", "l">>, <<"3">>, <<"r", "u", "n">>>>,
     <<<<"-", "-", "a", "p", "p", "-", "v", "e", "r", "b", "o", "s", "e">>, <<"r", "u", "n">>>>,
     <<<<"r", "u", "n">>, <<"-", "-", "C", "L", "I", "-", "v", "e", "r", "b", "o", "s", "e">>>>,
     <<<<"a", "d", "d", "-", "i", "t", "e", "m">>, <<"-", "-", "n", "a", "m", "e">>, <<"a">>>>,
     <<<<"a", "d", "d", "_", "i", "t", "e", "m">>, <<"-", "-", "n", "a", "m", "e">>, <<"a">>>>}

\* namespaces handed to the namespace-to-kwargs helpers directly
FuncNamespaces ==
    {Namespace(EmptyAttrs),
     Namespace(SetAttr(SetAttr(SetAttr(EmptyAttrs, N_name, StrValue(<<"a">>)),
                               N_args, ListValue(<<StrValue(<<"z">>)>>)),
                       N_kwargs, IntValue(5))),
     Namespace(SetAttr(SetAttr(SetAttr(EmptyAttrs, N_name, StrValue(<<"a">>)),
                               N_count, IntValue(2)),
                       <<"o", "p", "t", "s", "_", "a">>, IntValue(5)))}

ClassNamespaces ==
    {Namespace(EmptyAttrs),
     Namespace(SetAttr(SetAttr(SetAttr(SetAttr(EmptyAttrs, N_verbose, BoolValue(TRUE)),
                                       N_log_level, IntValue(3)),
                               N_command, StrValue(<<"a", "d", "d", "-", "i", "t", "e", "m">>)),
                       N_name, StrValue(<<"a">>)))}

MethodNames == {<<"r", "u", "n">>, <<"a", "d", "d", "-", "i", "t", "e", "m">>, <<"a", "d", "d", "_", "i", "t", "e", "m">>}

\* what the last operation on a wrapper was, on which wrapper, what it was
\* given and what it returned; parser is the parser the wrapper holds
\* afterwards and built tells whether the operation ran _build_parser
NoAccess == [op |-> "none", wrapper |-> "none"]
Argv(tokens) == [kind |-> "argv", tokens |-> tokens]
Access(wrapper, op, input, value, before, after) ==
    [wrapper |-> wrapper, op |-> op, input |-> input, value |-> value, parser |-> after.parser,
     built |-> after.builds # before.builds]

WrappersIdle ==
    /\ func_wrapper = None
    /\ class_wrapper = None
    /\ last_access = NoAccess

GroupIdle ==
    /\ cli_group = None
    /\ calls = <<>>
    /\ group_access = None

RegistryIdle ==
    /\ converter_registry = None
    /\ plugin_registry = None
    /\ registry_log = <<>>
    /\ registry_return = None

\* greet.parser
FuncParser ==
    /\ func_wrapper.builds < MaxBuilds
    /\ \E r \in {WargsWrapper_parser(func_wrapper)} :
          /\ func_wrapper' = r[1]
          /\ last_access' = Access("func", "parser", None, r[2], func_wrapper, r[1])
    /\ UNCHANGED class_wrapper
    /\ UNCHANGED exceptWrappers

\* greet.parse_args(argv)
FuncParseArgs(argv) ==
    /\ func_wrapper.builds < MaxBuilds
    /\ \E r \in {WargsWrapper_parse_args(func_wrapper, argv)} :
          /\ func_wrapper' = r[1]
          /\ last_access' = Access("func", "parse_args", Argv(argv), r[2], func_wrapper, r[1])
    /\ UNCHANGED class_wrapper
    /\ UNCHANGED exceptWrappers

\* greet._convert_namespace_to_kwargs(namespace)
FuncConvertNamespaceToKwargs(namespace) ==
    /\ func_wrapper.builds < MaxBuilds
    /\ \E r \in {WargsWrapper_convert_namespace_to_kwargs(func_wrapper, namespace)} :
          /\ func_wrapper' = r[1]
          /\ last_access' = Access("func", "convert_namespace_to_kwargs", namespace, r[2], func_wrapper, r[1])
    /\ UNCHANGED class_wrapper
    /\ UNCHANGED exceptWrappers

\* greet.run(argv), and greet() with argv as the process arguments
FuncRun(argv) ==
    /\ func_wrapper.builds < MaxBuilds
    /\ \E r \in {WargsWrapper_run(func_wrapper, argv)} :
          /\ func_wrapper' = r[1]
          /\ last_access' = Access("func", "run", Argv(argv), r[2], func_wrapper, r[1])
    /\ UNCHANGED class_wrapper
    /\ UNCHANGED exceptWrappers

\* CLI.parser
ClassParser ==
    /\ class_wrapper.builds < MaxBuilds
    /\ \E r \in {WargsClassWrapper_parser(class_wrapper)} :
          /\ class_wrapper' = r[1]
          /\ last_access' = Access("class", "parser", None, r[2], class_wrapper, r[1])
    /\ UNCHANGED func_wrapper
    /\ UNCHANGED exceptWrappers

\* CLI.parse_args(argv)
ClassParseArgs(argv) ==
    /\ class_wrapper.builds < MaxBuilds
    /\ \E r \in {WargsClassWrapper_parse_args(class_wrapper, argv)} :
          /\ class_wrapper' = r[1]
          /\ last_access' = Access("class", "parse_args", Argv(argv), r[2], class_wrapper, r[1])
    /\ UNCHANGED func_wrapper
    /\ UNCHANGED exceptWrappers

\* CLI._get_init_kwargs(namespace)
ClassGetInitKwargs(namespace) ==
    /\ class_wrapper.builds < MaxBuilds
    /\ \E r \in {WargsClassWrapper_get_init_kwargs(class_wrapper, namespace)} :
          /\ class_wrapper' = r[1]
          /\ last_access' = Access("class", "get_init_kwargs", namespace, r[2], class_wrapper, r[1])
    /\ UNCHANGED func_wrapper
    /\ UNCHANGED exceptWrappers

\* CLI._get_method_kwargs(namespace, method_name)
ClassGetMethodKwargs(namespace, method_name) ==
    /\ class_wrapper.builds < MaxBuilds
    /\ \E r \in {WargsClassWrapper_get_method_kwargs(class_wrapper, namespace, method_name)} :
          /\ class_wrapper' = r[1]
          /\ last_access' = Access("class", "get_method_kwargs", [kind |-> "arguments", namespace |-> namespace, method_name |-> method_name], r[2], class_wrapper, r[1])
    /\ UNCHANGED func_wrapper
    /\ UNCHANGED exceptWrappers

\* CLI.run(argv)
ClassRun(argv) ==
    /\ class_wrapper.builds < MaxBuilds
    /\ \E r \in {WargsClassWrapper_run(class_wrapper, argv)} :
          /\ class_wrapper' = r[1]
          /\ last_access' = Access("class", "run", Argv(argv), r[2], class_wrapper, r[1])
    /\ UNCHANGED func_wrapper
    /\ UNCHANGED exceptWrappers

\* CLI() with argv as the process arguments
ClassCall(argv) ==
    /\ class_wrapper.builds < MaxBuilds
    /\ \E r \in {WargsClassWrapper_call(class_wrapper, argv)} :
          /\ class_wrapper' = r[1]
          /\ last_access' = Access("class", "call", Argv(argv), r[2], class_wrapper, r[1])
    /\ UNCHANGED func_wrapper
    /\ UNCHANGED exceptWrappers

(***************************************************************************)
(* core/groups.py: WargsGroup                                              *)
(***************************************************************************)
MaxGroupBuilds == 3

\* a dict kept as the sequence of its <<key, value>> items: d[key] = value,
\* d.get(key), key in d
DictSet(items, key, value) ==
    IF \E i \in 1..Len(items) : items[i][1] = key
    THEN [i \in 1..Len(items) |-> IF items[i][1] = key THEN <<key, value>> ELSE items[i]]
    ELSE Append(items, <<key, value>>)
KeyIndex(items, key) ==
    IF \E i \in 1..Len(items) : items[i][1] = key
    THEN CHOOSE i \in 1..Len(items) : items[i][1] = key
    ELSE 0
DictKeys(items) == [i \in 1..Len(items) |-> items[i][1]]

CommandInfo(name, func, description) ==
    [kind |-> "CommandInfo", name |-> name, func |-> func,
     description |-> description, config |-> None]

\* WargsGroup.__init__; builds counts the runs of _build_parser
WargsGroup(func, prog, description, add_help, formatter_class, completion) ==
    [kind |-> "WargsGroup", func |-> func, prog |-> prog, description |-> description,
     add_help |-> add_help, formatter_class |-> formatter_class,
     completion |-> completion, commands |-> <<>>, subgroups |-> <<>>,
     parser |-> None, parser_config |-> None, group_config |-> None, builds |-> 0]

\* name or func.__name__.replace("_", "-")
registered_name(name, func) ==
    IF Truthy(name) THEN name.val ELSE Replace(func.name, "_", "-")

\* help or (func.__doc__ or "").split("\n")[0].strip()
registered_description(help, func) ==
    IF Truthy(help) THEN help
    ELSE IF Truthy(func.description)
         THEN StrValue(Strip(SplitFirst(func.description.val, <<"\n">>)))
    ELSE StrValue(<<>>)

\* f"{self._prog or ''} {name}".strip()
sub_prog(g, name) ==
    StrValue(Strip((IF Truthy(g.prog) THEN g.prog.val ELSE <<>>) \o <<" ">> \o name))

\* WargsGroup.command(name, help=help)(func): the group afterwards
WargsGroup_command(g, name, help, func) ==
    [g EXCEPT !.commands = DictSet(@, registered_name(name, func),
                                   CommandInfo(registered_name(name, func), func,
                                               registered_description(help, func))),
              !.parser = None,
              !.parser_config = None]

\* WargsGroup.group(name, help=help)(func): the group afterwards
WargsGroup_group(g, name, help, func) ==
    [g EXCEPT !.subgroups =
                  DictSet(@, registered_name(name, func),
                          WargsGroup(func, sub_prog(g, registered_name(name, func)),
                                     registered_description(help, func),
                                     g.add_help, g.formatter_class, FALSE)),
              !.parser = None,
              !.parser_config = None]

\* resolve_type raises on one of the function's annotations
RaisesOnResolve(func) ==
    \E i \in 1..Len(func.parameters) : func.parameters[i].type_info = TypeError

\* WargsGroup._build_group_config: the ParserConfig, or the TypeError raised
build_group_config(g) ==
    IF RaisesOnResolve(g.func) THEN TypeError
    ELSE apply_options(g, build_parser_config(g.func, g.prog, g.description, None))

\* WargsGroup._build_command_config: the ParserConfig, or the TypeError raised
build_command_config(g, cmd_info) ==
    IF RaisesOnResolve(cmd_info.func) THEN TypeError
    ELSE build_parser_config(cmd_info.func, sub_prog(g, cmd_info.name),
                             cmd_info.description, None)

\* _build_parser, "Add command arguments": the add_argument call made on
\* the command's sub-parser for one ArgumentConfig
command_add_argument(config) ==
    [names |-> IF config.positional THEN <<config.name>>
               ELSE IF config.flags # <<>> THEN config.flags
               ELSE << <<"-", "-">> \o Replace(config.name, "_", "-") >>,
     positional |-> config.positional,
     kwargs |-> build_add_argument_kwargs(config),
     exclusive_group |-> None,
     group |-> None]

\* the sub-parser added for a command, and the one added for a subgroup
command_subparser(cmd_name, cmd_config) ==
    [name |-> cmd_name, description |-> cmd_config.description,
     actions |-> [i \in 1..Len(cmd_config.arguments) |->
                     command_add_argument(cmd_config.arguments[i])]]
subgroup_subparser(subgroup_name) ==
    [name |-> subgroup_name, description |-> None, actions |-> <<>>]

\* A build in progress: the group as it is by now, and whether an exception
\* has ended the build.
Building(g, raised) == [group |-> g, raised |-> raised]

\* _build_parser up to "Create main parser with group options"
StartBuild(g) ==
    Building([g EXCEPT !.group_config = build_group_config(g),
                       !.parser = build_parser(build_group_config(g), g.builds + 1),
                       !.builds = @ + 1],
             FALSE)

\* _build_parser, "Add commands", one pass of the loop
AddCommand(b, i) ==
    IF b.raised THEN b
    ELSE IF build_command_config(b.group, b.group.commands[i][2]) = TypeError
    THEN Building(b.group, TRUE)
    ELSE Building([b.group EXCEPT
                       !.commands[i][2].config =
                           build_command_config(b.group, b.group.commands[i][2]),
                       !.parser.subparsers =
                           Append(@, command_subparser(
                                         b.group.commands[i][1],
                                         build_command_config(b.group, b.group.commands[i][2])))],
                  FALSE)

RECURSIVE AddCommands(_, _)
AddCommands(b, i) == IF i = 0 THEN b ELSE AddCommand(AddCommands(b, i - 1), i)

\* _build_parser, "Create combined parser config for completion"
combined_config(g) ==
    [ParserConfig(g.group_config.prog, g.group_config.description,
                  g.group_config.arguments,
                  [i \in 1..Len(g.commands) |-> <<g.commands[i][1], g.commands[i][2].config>>],
                  <<>>)
        EXCEPT !.add_help = g.add_help]

FinishBuild(b) ==
    IF b.raised THEN b
    ELSE Building([b.group EXCEPT !.parser_config = combined_config(b.group)], FALSE)

RECURSIVE WargsGroup_build_parser(_)

\* the parser property behind its test
WargsGroup_parser(g) ==
    IF g.parser = None THEN WargsGroup_build_parser(g) ELSE Building(g, FALSE)

\* _build_parser, "Add subgroups as nested commands", one pass of the loop,
\* given what subgroup.parser did
AddSubgroup(b, i, sub) ==
    IF sub.raised THEN Building([b.group EXCEPT !.subgroups[i][2] = sub.group], TRUE)
    ELSE Building([b.group EXCEPT
                       !.subgroups[i][2] = sub.group,
                       !.parser.subparsers =
                           Append(@, subgroup_subparser(b.group.subgroups[i][1]))],
                  FALSE)

\* the pass for subgroup i: "_ = subgroup.parser" forces its build
NextSubgroup(b, i) ==
    IF b.raised THEN b
    ELSE AddSubgroup(b, i, WargsGroup_parser(b.group.subgroups[i][2]))

RECURSIVE AddSubgroups(_, _)
AddSubgroups(b, i) == IF i = 0 THEN b ELSE NextSubgroup(AddSubgroups(b, i - 1), i)

\* WargsGroup._build_parser: the group afterwards, and whether it raised
WargsGroup_build_parser(g) ==
    IF build_group_config(g) = TypeError THEN Building(g, TRUE)
    ELSE FinishBuild(AddSubgroups(AddCommands(StartBuild(g), Len(g.commands)),
                                  Len(g.subgroups)))

\* the _wargs_config property
WargsGroup_wargs_config(g) ==
    IF g.parser_config = None THEN WargsGroup_build_parser(g) ELSE Building(g, FALSE)

\* WargsGroup._get_group_kwargs / _get_command_kwargs: the arguments of a
\* configuration whose attribute in the namespace is not None
config_kwargs(config, namespace) ==
    Kwargs([n \in {config.arguments[i].name : i \in
                      {j \in 1..Len(config.arguments) :
                           GetAttr(namespace, config.arguments[j].name) # None}} |->
               GetAttr(namespace, n)])

\* WargsGroup._get_group_kwargs (the group's parser has been built)
get_group_kwargs(g, namespace) == config_kwargs(g.group_config, namespace)

\* WargsGroup._get_command_kwargs
get_command_kwargs(g, namespace, cmd_name) ==
    IF KeyIndex(g.commands, cmd_name) = 0
       \/ g.commands[KeyIndex(g.commands, cmd_name)][2].config = None
    THEN Kwargs([n \in {} |-> None])
    ELSE config_kwargs(g.commands[KeyIndex(g.commands, cmd_name)][2].config, namespace)

\* func(**kwargs) binds: every keyword names a parameter that takes one (or
\* the function has **kwargs), and every parameter without default is given
Binds(func, kwargs) ==
    /\ \A n \in DOMAIN kwargs.items :
           \E i \in 1..Len(func.parameters) :
               \/ func.parameters[i].kind = "VAR_KEYWORD"
               \/ /\ func.parameters[i].name = n
                  /\ func.parameters[i].kind \in {"POSITIONAL_OR_KEYWORD", "KEYWORD_ONLY"}
    /\ \A i \in 1..Len(func.parameters) :
           (func.parameters[i].kind \in NamedKinds /\ ~func.parameters[i].has_default)
               => func.parameters[i].name \in DOMAIN kwargs.items

\* What a run did: the group afterwards, the calls it made in order, and
\* what it returned or raised. The return value of a call is written as the
\* call itself.
Outcome(g, made, value) == [group |-> g, calls |-> made, value |-> value]

\* args[args.index(command) + 1:]
Remaining(args, command) ==
    SubSeq(args, FirstOf({i \in 1..Len(args) : args[i] = command}) + 1, Len(args))

\* run, "Run the command": cmd_info.func(**cmd_kwargs)
invoke_command(g, made, func, kwargs) ==
    IF Binds(func, kwargs)
    THEN Outcome(g, Append(made, Called(func.name, kwargs)), Called(func.name, kwargs))
    ELSE Outcome(g, made, TypeError)

\* run, "Check for subgroup", given what subgroup.run(remaining) did
run_subgroup(g, made, i, sub) ==
    Outcome([g EXCEPT !.subgroups[i][2] = sub.group], made \o sub.calls, sub.value)

RECURSIVE WargsGroup_run(_, _)

\* run behind the call of the group function
run_dispatch(g, args, namespace, made) ==
    IF GetAttr(namespace, N_command) = None THEN Outcome(g, made, None)
    ELSE IF KeyIndex(g.subgroups, GetAttr(namespace, N_command).val) # 0
    THEN run_subgroup(g, made, KeyIndex(g.subgroups, GetAttr(namespace, N_command).val),
                      WargsGroup_run(
                          g.subgroups[KeyIndex(g.subgroups, GetAttr(namespace, N_command).val)][2],
                          Remaining(args, GetAttr(namespace, N_command).val)))
    ELSE invoke_command(g, made,
                     g.commands[KeyIndex(g.commands, GetAttr(namespace, N_command).val)][2].func,
                     get_command_kwargs(g, namespace, GetAttr(namespace, N_command).val))

\* run, "Run group function first", given the namespace parse_args returned
run_group_func(g, args, namespace) ==
    IF namespace = SystemExit THEN Outcome(g, <<>>, SystemExit)
    ELSE IF ~Binds(g.func, get_group_kwargs(g, namespace)) THEN Outcome(g, <<>>, TypeError)
    ELSE run_dispatch(g, args, namespace,
                      <<Called(g.func.name, get_group_kwargs(g, namespace))>>)

\* run, given what the parser property did
run_with_parser(p, args) ==
    IF p.raised THEN Outcome(p.group, <<>>, TypeError)
    ELSE run_group_func(p.group, args, parse_args(p.group.parser, args))

\* WargsGroup.run (completion off)
WargsGroup_run(g, args) == run_with_parser(WargsGroup_parser(g), args)

(***************************************************************************)
(* The group the operations are made on, and the functions registered.     *)
(***************************************************************************)
N_cli == <<"c", "l", "i">>
N_add == <<"a", "d", "d">>
N_lv == <<"l", "v">>
N_pick == <<"p", "i", "c", "k">>
N_db == <<"d", "b">>
N_migrate == <<"m", "i", "g", "r", "a", "t", "e">>
N_level == <<"l", "e", "v", "e", "l">>
N_kind == <<"k", "i", "n", "d">>

\* @group()
\* def cli(verbose: bool = False, level: int = 0): """My CLI."""
Cli ==
    FunctionInfo(N_cli,
        <<ParameterInfo(N_verbose, Cls("bool"), BoolValue(FALSE), TRUE, "POSITIONAL_OR_KEYWORD", None),
          ParameterInfo(N_level, Cls("int"), IntValue(0), TRUE, "POSITIONAL_OR_KEYWORD", None)>>,
        StrValue(<<"M", "y", " ", "C", "L", "I", ".">>))

\* def add(name: str)
Add ==
    FunctionInfo(N_add,
        <<ParameterInfo(N_name, Cls("str"), MISSING, FALSE, "POSITIONAL_OR_KEYWORD", None)>>,
        None)

\* def lv(level: int = 7)
Lv ==
    FunctionInfo(N_lv,
        <<ParameterInfo(N_level, Cls("int"), IntValue(7), TRUE, "POSITIONAL_OR_KEYWORD", None)>>,
        None)

\* def pick(kind: Annotated[str, Arg(choices=["a", "b"])])
Pick ==
    FunctionInfo(N_pick,
        <<ParameterInfo(N_kind,
                        Annotated(Cls("str"),
                                  <<[ArgDefaults EXCEPT !.choices =
                                        ListValue(<<StrValue(<<"a">>), StrValue(<<"b">>)>>)]>>),
                        MISSING, FALSE, "POSITIONAL_OR_KEYWORD", None)>>,
        None)

\* def db(), registered as a subgroup, and def migrate(), registered on db
Db == FunctionInfo(N_db, <<>>, None)
Migrate == FunctionInfo(N_migrate, <<>>, None)

CommandFunctions == {Add, Lv, Pick}

GroupArgvs ==
    {<<>>,
     <<N_add>>,
     <<N_add, <<"-", "-", "n", "a", "m", "e">>, <<"x">>>>,
     <<<<"-", "-", "v", "e", "r", "b", "o", "s", "e">>, <<"-", "-", "l", "e", "v", "e", "l">>, <<"3">>,
       N_add, <<"-", "-", "n", "a", "m", "e">>, <<"x">>>>,
     <<N_lv>>,
     <<<<"-", "-", "l", "e", "v", "e", "l">>, <<"3">>, N_lv>>,
     <<N_lv, <<"-", "-", "l", "e", "v", "e", "l">>, <<"5">>>>,
     <<N_pick, <<"-", "-", "k", "i", "n", "d">>, <<"a">>>>,
     <<N_db>>,
     <<N_db, N_migrate>>}

\* what the last operation on the group was, what it was given, what it
\* returned or raised, the parser the group held before and holds after it,
\* and whether it ran _build_parser
NoGroupAccess == [op |-> "none"]
GroupAccess(op, input, value, before, after) ==
    [op |-> op, input |-> input, value |-> value, held_before |-> before.parser,
     parser |-> after.parser, built |-> after.builds # before.builds]

\* the value a property returns after its build: the attribute, or the
\* exception the build raised
Returned(b, value) == IF b.raised THEN TypeError ELSE value

\* @cli.command() on func
GroupCommand(func) ==
    /\ cli_group' = WargsGroup_command(cli_group, None, None, func)
    /\ calls' = <<>>
    /\ group_access' = GroupAccess("command", func.name, None, cli_group, cli_group')
    /\ UNCHANGED exceptGroup

\* @cli.group() on db
GroupGroup ==
    /\ cli_group' = WargsGroup_group(cli_group, None, None, Db)
    /\ calls' = <<>>
    /\ group_access' = GroupAccess("group", N_db, None, cli_group, cli_group')
    /\ UNCHANGED exceptGroup

\* @db.command() on migrate
SubgroupCommand ==
    /\ KeyIndex(cli_group.subgroups, N_db) # 0
    /\ cli_group.subgroups[KeyIndex(cli_group.subgroups, N_db)][2].builds < MaxGroupBuilds
    /\ cli_group' = [cli_group EXCEPT !.subgroups[KeyIndex(cli_group.subgroups, N_db)][2] =
                         WargsGroup_command(@, None, None, Migrate)]
    /\ calls' = <<>>
    /\ group_access' = GroupAccess("subgroup_command", N_migrate, None, cli_group, cli_group')
    /\ UNCHANGED exceptGroup

\* cli.parser
GroupParser ==
    /\ cli_group.builds < MaxGroupBuilds
    /\ \E b \in {WargsGroup_parser(cli_group)} :
          /\ cli_group' = b.group
          /\ group_access' = GroupAccess("parser", None, Returned(b, b.group.parser),
                                         cli_group, b.group)
    /\ calls' = <<>>
    /\ UNCHANGED exceptGroup

\* cli._wargs_config
GroupWargsConfig ==
    /\ cli_group.builds < MaxGroupBuilds
    /\ \E b \in {WargsGroup_wargs_config(cli_group)} :
          /\ cli_group' = b.group
          /\ group_access' = GroupAccess("wargs_config", None,
                                         Returned(b, b.group.parser_config),
                                         cli_group, b.group)
    /\ calls' = <<>>
    /\ UNCHANGED exceptGroup

\* cli.run(argv), and cli() with argv as the process arguments
GroupRun(argv) ==
    /\ cli_group.builds < MaxGroupBuilds
    /\ \E r \in {WargsGroup_run(cli_group, argv)} :
          /\ cli_group' = r.group
          /\ calls' = r.calls
          /\ group_access' = GroupAccess("run", Argv(argv), r.value, cli_group, r.group)
    /\ UNCHANGED exceptGroup

(***************************************************************************)
(* converters/registry.py and plugins/registry.py: the registry objects,   *)
(* and the entry points importlib.metadata finds for a group.              *)
(***************************************************************************)
MaxOps == 4

G_default == "wargs.converters"
G_custom == "custom.group"
Groups == {G_default, G_custom}

\* an installed entry point: its register function puts converter f on the
\* registry for class t, or loading it raises
EntryPoint(name, t, f, loads) ==
    [name |-> name, type |-> t, converter |-> f, loads |-> loads]

\* importlib.metadata.entry_points(group=group)
entry_points(group) ==
    CASE group = G_default ->
             <<EntryPoint("ints", "int", "f", TRUE), EntryPoint("broken", "Item", "f", FALSE),
               EntryPoint("objects", "object", "g", TRUE)>>
      [] group = G_custom -> <<EntryPoint("items", "Item", "g", TRUE)>>
      [] OTHER -> <<>>

\* ConverterRegistry.__init__
ConverterRegistry(convs, loaded) ==
    [kind |-> "ConverterRegistry", converters |-> convs, plugins_loaded |-> loaded]

\* ConverterRegistry.register on the object
ConverterRegistry_register(r, t, f) == [r EXCEPT !.converters = register(@, t, f)]

\* ConverterRegistry.unregister on the object: <<the registry, the return>>
ConverterRegistry_unregister(r, t) ==
    <<[r EXCEPT !.converters = unregister(@, t)[1]], unregister(r.converters, t)[2]>>

\* ConverterRegistry.clear
ConverterRegistry_clear(r) == ConverterRegistry(EmptyMapping, FALSE)

\* the loop over the entry points: register_func(registry) for each that
\* loads.  <<the registry, the number that loaded>> after the first i
LoadEach(r, eps) ==
    LET F[i \in 0..Len(eps)] ==
            IF i = 0 THEN <<r, 0>>
            ELSE IF eps[i].loads
                 THEN <<ConverterRegistry_register(F[i - 1][1], eps[i].type, eps[i].converter),
                        F[i - 1][2] + 1>>
                 ELSE F[i - 1]
    IN F[Len(eps)]

\* the names of the entry points in eps
EntryPointNames(eps) == [i \in 1..Len(eps) |-> eps[i].name]

\* ConverterRegistry.load_entry_points(group):
\* <<the registry, the count returned, the entry points invoked>>
load_entry_points(r, group) ==
    IF r.plugins_loaded THEN <<r, 0, <<>> >>
    ELSE <<[LoadEach(r, entry_points(group))[1] EXCEPT !.plugins_loaded = TRUE],
           LoadEach(r, entry_points(group))[2],
           entry_points(group)>>

\* PluginRegistry.__init__
PluginRegistry(loaded, failed) ==
    [kind |-> "PluginRegistry", loaded_plugins |-> loaded, failed_plugins |-> failed]

NoGroups == [g \in {} |-> <<>>]

PluginError == [kind |-> "PluginError"]

\* the loop of load_converters: <<the converter registry, the names loaded,
\* the names that failed, the entry points invoked, whether it raised>>
LoadPlugins(r, eps, raise_on_error) ==
    LET F[i \in 0..Len(eps)] ==
            IF i = 0 THEN <<r, <<>>, <<>>, <<>>, FALSE>>
            ELSE IF F[i - 1][5] THEN F[i - 1]
            ELSE IF eps[i].loads
                 THEN <<ConverterRegistry_register(F[i - 1][1], eps[i].type, eps[i].converter),
                        Append(F[i - 1][2], eps[i].name), F[i - 1][3],
                        Append(F[i - 1][4], eps[i]), FALSE>>
                 ELSE <<F[i - 1][1], F[i - 1][2], Append(F[i - 1][3], eps[i].name),
                        Append(F[i - 1][4], eps[i]), raise_on_error>>
    IN F[Len(eps)]

\* the mapping d with d[g] = v
SetGroup(d, g, v) == [h \in DOMAIN d \cup {g} |-> IF h = g THEN v ELSE d[h]]

\* what load_converters does on a group not held in _loaded_plugins
load_group(pr, r, group, raise_on_error) ==
    LET l == LoadPlugins(r, entry_points(group), raise_on_error)
    IN [plugins |-> PluginRegistry(SetGroup(pr.loaded_plugins, group, l[2]),
                                   SetGroup(pr.failed_plugins, group, l[3])),
        registry |-> l[1],
        value |-> IF l[5] THEN PluginError ELSE IntValue(Len(l[2])),
        invoked |-> l[4]]

\* Mutant: one flag for all groups, as if any loaded group marked every group.
load_converters_one_flag(pr, r, group, raise_on_error) ==
    IF DOMAIN pr.loaded_plugins # {}
    THEN [plugins |-> pr, registry |-> r,
          value |-> IntValue(IF group \in DOMAIN pr.loaded_plugins
                             THEN Len(pr.loaded_plugins[group]) ELSE 0),
          invoked |-> <<>>]
    ELSE load_group(pr, r, group, raise_on_error)

\* PluginRegistry.load_converters(converter_registry, group=, raise_on_error=)
load_converters(pr, r, group, raise_on_error) ==
    IF group \in DOMAIN pr.loaded_plugins
    THEN [plugins |-> pr, registry |-> r,
          value |-> IntValue(Len(pr.loaded_plugins[group])), invoked |-> <<>>]
    ELSE load_group(pr, r, group, raise_on_error)

\* PluginRegistry.is_loaded
is_loaded(pr, group) == group \in DOMAIN pr.loaded_plugins

\* PluginRegistry.clear
PluginRegistry_clear(pr) == PluginRegistry(NoGroups, NoGroups)

\* One entry of the log: the operation, its arguments, and for a load the
\* entry points it invoked.
Op(op, group, t, f, invoked) ==
    [op |-> op, group |-> group, type |-> t, converter |-> f, invoked |-> invoked]

\* the register calls the invoked entry points of a group made
Registers(group, eps) ==
    LET F[i \in 0..Len(eps)] ==
            IF i = 0 THEN <<>>
            ELSE IF eps[i].loads
                 THEN Append(F[i - 1], Op("register", group, eps[i].type, eps[i].converter, <<>>))
                 ELSE F[i - 1]
    IN F[Len(eps)]

\* the number of operations the caller made: the entries of the log less
\* the register calls entry points made
OpsMade(log) ==
    Cardinality({i \in 1..Len(log) : log[i].op # "register" \/ log[i].group = ""})

\* registry.register(t, f)
RegistryRegister(t, f) ==
    /\ OpsMade(registry_log) < MaxOps
    /\ converter_registry' = ConverterRegistry_register(converter_registry, t, f)
    /\ registry_log' = Append(registry_log, Op("register", "", t, f, <<>>))
    /\ registry_return' = None
    /\ UNCHANGED plugin_registry
    /\ UNCHANGED exceptRegistry

\* registry.unregister(t)
RegistryUnregister(t) ==
    /\ OpsMade(registry_log) < MaxOps
    /\ converter_registry' = ConverterRegistry_unregister(converter_registry, t)[1]
    /\ registry_log' = Append(registry_log, Op("unregister", "", t, "", <<>>))
    /\ registry_return' = BoolValue(ConverterRegistry_unregister(converter_registry, t)[2])
    /\ UNCHANGED plugin_registry
    /\ UNCHANGED exceptRegistry

\* registry.clear()
RegistryClear ==
    /\ OpsMade(registry_log) < MaxOps
    /\ converter_registry' = ConverterRegistry_clear(converter_registry)
    /\ registry_log' = Append(registry_log, Op("clear", "", "", "", <<>>))
    /\ registry_return' = None
    /\ UNCHANGED plugin_registry
    /\ UNCHANGED exceptRegistry

\* registry.load_entry_points(group)
RegistryLoadEntryPoints(group) ==
    /\ OpsMade(registry_log) < MaxOps
    /\ \E l \in {load_entry_points(converter_registry, group)} :
          /\ converter_registry' = l[1]
          /\ registry_log' = registry_log \o Registers(group, l[3])
                                \o <<Op("load_entry_points", group, "", "", EntryPointNames(l[3]))>>
          /\ registry_return' = IntValue(l[2])
    /\ UNCHANGED plugin_registry
    /\ UNCHANGED exceptRegistry

\* plugin_registry.load_converters(registry, group=group, raise_on_error=r)
PluginLoadConverters(group, raise_on_error) ==
    /\ OpsMade(registry_log) < MaxOps
    /\ \E l \in {load_converters(plugin_registry, converter_registry, group, raise_on_error)} :
          /\ plugin_registry' = l.plugins
          /\ converter_registry' = l.registry
          /\ registry_log' = registry_log \o Registers(group, l.invoked)
                                \o <<Op("load_converters", group, "", "", EntryPointNames(l.invoked))>>
          /\ registry_return' = l.value
    /\ UNCHANGED exceptRegistry

\* plugin_registry.clear()
PluginClear ==
    /\ OpsMade(registry_log) < MaxOps
    /\ plugin_registry' = PluginRegistry_clear(plugin_registry)
    /\ registry_log' = Append(registry_log, Op("plugin_clear", "", "", "", <<>>))
    /\ registry_return' = None
    /\ UNCHANGED converter_registry
    /\ UNCHANGED exceptRegistry

(***************************************************************************)
(* The default registry, the module-level converter decorator, and         *)
(* functions decorated after converters were registered on it.             *)
(***************************************************************************)
MaxRegistrations == 2

N_send == <<"s", "e", "n", "d">>
N_send_all == <<"s", "e", "n", "d", "_", "a", "l", "l">>
N_to == <<"t", "o">>
N_fetch == <<"f", "e", "t", "c", "h">>
N_url == <<"u", "r", "l">>
N_target == <<"t", "a", "r", "g", "e", "t">>
N_serve == <<"s", "e", "r", "v", "e">>
N_debug == <<"d", "e", "b", "u", "g">>
N_quiet == <<"q", "u", "i", "e", "t">>

\* def send(to: Item)
Send ==
    FunctionInfo(N_send,
        <<ParameterInfo(N_to, Cls("Item"), MISSING, FALSE, "POSITIONAL_OR_KEYWORD", None)>>,
        None)

\* def send_all(to: list[Item])
SendAll ==
    FunctionInfo(N_send_all,
        <<ParameterInfo(N_to, Generic("list", <<Cls("Item")>>), MISSING, FALSE,
                        "POSITIONAL_OR_KEYWORD", None)>>,
        None)

\* def fetch(url: Annotated[str, Arg(dest="target")] = "d")
Fetch ==
    FunctionInfo(N_fetch,
        <<ParameterInfo(N_url,
                        Annotated(Cls("str"), <<[ArgDefaults EXCEPT !.dest = StrValue(N_target)]>>),
                        StrValue(<<"d">>), TRUE, "POSITIONAL_OR_KEYWORD", None)>>,
        None)

\* def serve(debug: bool = True, quiet: bool = False)
Serve ==
    FunctionInfo(N_serve,
        <<ParameterInfo(N_debug, Cls("bool"), BoolValue(TRUE), TRUE, "POSITIONAL_OR_KEYWORD", None),
          ParameterInfo(N_quiet, Cls("bool"), BoolValue(FALSE), TRUE, "POSITIONAL_OR_KEYWORD", None)>>,
        None)

DecoratedFunctions == {Send, SendAll, Fetch, Serve}

DecoratedArgvs ==
    {<<>>,
     <<<<"-", "-", "t", "o">>, <<"x">>>>,
     <<<<"-", "-", "t", "o">>, <<"x">>, <<"y">>>>,
     <<<<"-", "-", "u", "r", "l">>, <<"x">>>>,
     <<<<"-", "-", "d", "e", "b", "u", "g">>>>,
     <<<<"-", "-", "n", "o", "-", "d", "e", "b", "u", "g">>>>,
     <<<<"-", "-", "d", "e", "b", "u", "g">>, <<"F", "a", "l", "s", "e">>>>,
     <<<<"-", "-", "q", "u", "i", "e", "t">>>>,
     <<<<"-", "-", "d", "e", "b", "u", "g">>, <<"-", "-", "q", "u", "i", "e", "t">>>>}

\* @converter(t) def f(value): ...   (on the default registry)
ConverterDecorator(t, f) ==
    /\ Len(registry_log) < MaxRegistrations
    /\ converter_registry' = ConverterRegistry_register(converter_registry, t, f)
    /\ registry_log' = Append(registry_log, Op("register", "", t, f, <<>>))
    /\ UNCHANGED <<plugin_registry, registry_return>>
    /\ UNCHANGED exceptRegistry

\* @wArgs def func(...): ...
Decorate(func) ==
    /\ func_wrapper = None
    /\ func_wrapper' = WargsWrapper(func, None, None, TRUE, None, FALSE, BoolValue(FALSE))
    /\ UNCHANGED <<class_wrapper, last_access>>
    /\ UNCHANGED exceptWrappers

(***************************************************************************)
(* Specifications                                                          *)
(***************************************************************************)
InitResolve ==
    /\ TypesIdle /\ RoundtripIdle /\ MroIdle /\ ArgsIdle /\ WrappersIdle
    /\ ArgumentIdle /\ GroupIdle /\ RegistryIdle

NextResolve ==
    \/ \E t \in RegTypes, f \in ConverterIds : Register(t, f)
    \/ \E t \in RegTypes : Unregister(t)
    \/ Clear
    \/ \E a \in Annotations, r \in BOOLEAN : ResolveType(a, r)

SpecResolve == InitResolve /\ [][NextResolve]_vars

\* One call of resolve_type, on any annotation, with or without the registry,
\* whatever the registry holds by then.
RegistryContents == UNION {[D -> ConverterIds] : D \in SUBSET RegTypes}

InitResolveCall ==
    /\ RegistryIdle
    /\ ArgumentIdle
    /\ GroupIdle
    /\ RoundtripIdle
    /\ MroIdle
    /\ ArgsIdle
    /\ WrappersIdle
    /\ converters \in RegistryContents
    /\ annotation \in Annotations
    /\ registry_arg \in BOOLEAN
    /\ type_info = Unresolved

NextResolveCall == type_info = Unresolved /\ ResolveType(annotation, registry_arg)

SpecResolveCall == InitResolveCall /\ [][NextResolveCall]_vars

InitRoundtrip ==
    /\ RegistryIdle
    /\ ArgumentIdle
    /\ GroupIdle
    /\ TypesIdle
    /\ MroIdle
    /\ ArgsIdle
    /\ WrappersIdle
    /\ rt_value \in RepresentativeValues
    /\ rt_token = <<>>
    /\ rt_result = None
    /\ rt_pc = "start"

NextRoundtrip == Format \/ Convert

SpecRoundtrip == InitRoundtrip /\ [][NextRoundtrip]_vars

InitMro ==
    /\ RegistryIdle
    /\ ArgumentIdle
    /\ GroupIdle
    /\ TypesIdle
    /\ RoundtripIdle
    /\ ArgsIdle
    /\ WrappersIdle
    /\ \E child \in InitSignatures("Child"), left \in InitSignatures("Left"),
          right \in InitSignatures("Right"), base \in InitSignatures("Base") :
           class_init = [c \in HierarchyClasses |->
                            CASE c = "Child" -> child [] c = "Left" -> left
                              [] c = "Right" -> right [] c = "Base" -> base]
    /\ warn_on_conflict \in BOOLEAN
    /\ merged = <<>>
    /\ warnings = <<>>
    /\ mro_pc = "start"

NextMro == TraverseMro

SpecMro == InitMro /\ [][NextMro]_vars

InitArgs ==
    /\ RegistryIdle
    /\ ArgumentIdle
    /\ GroupIdle
    /\ TypesIdle
    /\ RoundtripIdle
    /\ MroIdle
    /\ WrappersIdle
    /\ \E ps \in Signatures, d \in FunctionDescriptions :
           args_func_info = FunctionInfo(N_my_cmd, ps, d)
    /\ args_prefix \in Prefixes
    /\ parser_config = Unbuilt
    /\ args_pc = "start"

NextArgs == BuildParserConfig

SpecArgs == InitArgs /\ [][NextArgs]_vars

\* One call of build_argument_config on a parameter, an override (or none)
\* and a prefix (or none) chosen independently.
InitArgument ==
    /\ RegistryIdle
    /\ TypesIdle
    /\ RoundtripIdle
    /\ MroIdle
    /\ ArgsIdle
    /\ WrappersIdle
    /\ GroupIdle
    /\ given_param \in GivenParams
    /\ given_metadata \in GivenOverrides
    /\ given_prefix \in Prefixes
    /\ argument_config = Unbuilt

NextArgument == BuildArgumentConfig

SpecArgument == InitArgument /\ [][NextArgument]_vars

\* @wArgs(prefix=...) on greet and on CLI, with the other options at their
\* defaults (completion off)
InitWrappers ==
    /\ RegistryIdle
    /\ ArgumentIdle
    /\ GroupIdle
    /\ TypesIdle
    /\ RoundtripIdle
    /\ MroIdle
    /\ ArgsIdle
    /\ \E p \in PrefixSettings, m \in BOOLEAN :
           /\ func_wrapper = WargsWrapper(Greet, None, None, TRUE, None, FALSE, p)
           /\ class_wrapper = WargsClassWrapper(CLI, None, None, TRUE, None, m, FALSE, p)
    /\ last_access = NoAccess

NextWrappers ==
    \/ FuncParser
    \/ \E argv \in FuncArgvs : FuncParseArgs(argv)
    \/ \E namespace \in FuncNamespaces : FuncConvertNamespaceToKwargs(namespace)
    \/ \E argv \in FuncArgvs : FuncRun(argv)
    \/ ClassParser
    \/ \E argv \in ClassArgvs : ClassParseArgs(argv)
    \/ \E namespace \in ClassNamespaces : ClassGetInitKwargs(namespace)
    \/ \E namespace \in ClassNamespaces, m \in MethodNames : ClassGetMethodKwargs(namespace, m)
    \/ \E argv \in ClassArgvs : ClassRun(argv)
    \/ \E argv \in ClassArgvs : ClassCall(argv)

SpecWrappers == InitWrappers /\ [][NextWrappers]_vars

\* A group cli, on which commands and a subgroup are registered, whose
\* parser and configuration are read and which is run, in any order.
InitGroup ==
    /\ RegistryIdle
    /\ TypesIdle
    /\ RoundtripIdle
    /\ MroIdle
    /\ ArgsIdle
    /\ WrappersIdle
    /\ ArgumentIdle
    /\ cli_group = WargsGroup(Cli, None, None, TRUE, None, FALSE)
    /\ calls = <<>>
    /\ group_access = NoGroupAccess

NextGroup ==
    \/ \E func \in CommandFunctions : GroupCommand(func)
    \/ GroupGroup
    \/ SubgroupCommand
    \/ GroupParser
    \/ GroupWargsConfig
    \/ \E argv \in GroupArgvs : GroupRun(argv)

SpecGroup == InitGroup /\ [][NextGroup]_vars

\* A fresh ConverterRegistry on which converters are registered and
\* unregistered, which is cleared, and which loads entry point groups.
InitRegistry ==
    /\ TypesIdle
    /\ RoundtripIdle
    /\ MroIdle
    /\ ArgsIdle
    /\ WrappersIdle
    /\ ArgumentIdle
    /\ GroupIdle
    /\ converter_registry = ConverterRegistry(EmptyMapping, FALSE)
    /\ plugin_registry = None
    /\ registry_log = <<>>
    /\ registry_return = None

NextRegistry ==
    \/ \E t \in RegTypes, f \in ConverterIds : RegistryRegister(t, f)
    \/ \E t \in RegTypes : RegistryUnregister(t)
    \/ RegistryClear
    \/ \E g \in Groups : RegistryLoadEntryPoints(g)

SpecRegistry == InitRegistry /\ [][NextRegistry]_vars

\* A fresh PluginRegistry that loads converter plugins onto a fresh
\* ConverterRegistry, group by group, and is cleared.
InitPlugins ==
    /\ TypesIdle
    /\ RoundtripIdle
    /\ MroIdle
    /\ ArgsIdle
    /\ WrappersIdle
    /\ ArgumentIdle
    /\ GroupIdle
    /\ converter_registry = ConverterRegistry(EmptyMapping, FALSE)
    /\ plugin_registry = PluginRegistry(NoGroups, NoGroups)
    /\ registry_log = <<>>
    /\ registry_return = None

NextPlugins ==
    \/ \E g \in Groups, r \in BOOLEAN : PluginLoadConverters(g, r)
    \/ PluginClear

SpecPlugins == InitPlugins /\ [][NextPlugins]_vars

\* Converters for Item are registered on the default registry, then a
\* function is decorated, then it is run on command lines.
InitDecorated ==
    /\ TypesIdle
    /\ RoundtripIdle
    /\ MroIdle
    /\ ArgsIdle
    /\ ArgumentIdle
    /\ GroupIdle
    /\ WrappersIdle
    /\ converter_registry = ConverterRegistry(EmptyMapping, FALSE)
    /\ plugin_registry = None
    /\ registry_log = <<>>
    /\ registry_return = None

NextDecorated ==
    \/ func_wrapper = None /\ \E f \in ConverterIds : ConverterDecorator("Item", f)
    \/ \E func \in DecoratedFunctions : Decorate(func)
    \/ func_wrapper # None /\ \E argv \in DecoratedArgvs : FuncRun(argv)

SpecDecorated == InitDecorated /\ [][NextDecorated]_vars

(***************************************************************************)
(* Claims                                                                  *)
(***************************************************************************)
\* The basic type appearing in an annotation as the annotation itself, inside
\* Optional, or as the element type of a collection; None when there is none.
RECURSIVE BasicTypeIn(_)
BasicTypeIn(a) ==
    CASE a.kind = "class" /\ a.cls \in BASIC_TYPES -> a
      [] a.kind = "union" /\ is_optional_type(a)[1] /\ Len(a.args) = 2 -> BasicTypeIn(is_optional_type(a)[2])
      [] a.kind = "generic" /\ a.origin \in COLLECTION_TYPES /\ Len(a.args) = 1 -> IF a.args[1].kind = "class" /\ a.args[1].cls \in BASIC_TYPES THEN a.args[1] ELSE None
      [] OTHER -> None

\* C1: registry entries never override the basic types: whenever str, int,
\* float, bool or Path is the annotation itself, is inside Optional, or is the
\* element type of a list/tuple/set/frozenset, the resolved converter is that
\* type's built-in constructor, whatever the registry holds.
C1_BasicTypeNeverOverridden ==
    (type_info # Unresolved /\ BasicTypeIn(annotation) # None)
        => type_info.converter = Ctor(BasicTypeIn(annotation).cls)

\* The class traversed and its linearized ancestors, the universal root
\* excluded; the names any of them declares; the position of the most-derived
\* class declaring a name.
Traversed == <<"Child", "Left", "Right", "Base">>
Own(j) == class_init[Traversed[j]]
DeclaredNames == {Own(j)[i].name : <<j, i>> \in {x \in (1..4) \X (1..MaxParams) : x[2] <= Len(Own(x[1]))}}
FirstDeclaring(n) == CHOOSE j \in 1..4 : HasName(Own(j), n) /\ \A k \in 1..4 : HasName(Own(k), n) => j <= k
Names(ps) == [i \in 1..Len(ps) |-> ps[i].name]

\* C2: in the merged constructor-parameter list every declared name occurs
\* exactly once (also under diamond inheritance), and that occurrence is the
\* version of the most-derived class declaring it, with that class's default
\* and annotation.
C2_EachNameOnceMostDerivedWins ==
    mro_pc = "done" =>
        /\ \A i \in 1..Len(merged) : merged[i].name \in DeclaredNames
        /\ \A n \in DeclaredNames :
              /\ Cardinality({i \in 1..Len(merged) : merged[i].name = n}) = 1
              /\ ByName(merged, n) = ByName(Own(FirstDeclaring(n)), n)

\* Both arms of the diamond and the common ancestor declare value, each its
\* own version, and the class traversed does not.
C2_Witness ==
    /\ mro_pc = "done"
    /\ ~HasName(Own(1), P_value)
    /\ \A j \in 2..4 : HasName(Own(j), P_value)
    /\ ByName(Own(2), P_value).annotation # ByName(Own(3), P_value).annotation
    /\ ByName(Own(3), P_value).annotation # ByName(Own(4), P_value).annotation
    /\ ByName(merged, P_value).default = ClassDefault("Left")

\* the names of a list of parameter lists, each name at its first occurrence
RECURSIVE FirstOccurrences(_, _)
FirstOccurrences(names, seen) ==
    IF names = <<>> THEN <<>>
    ELSE IF Head(names) \in seen THEN FirstOccurrences(Tail(names), seen)
    ELSE <<Head(names)>> \o FirstOccurrences(Tail(names), seen \cup {Head(names)})

\* C3: the merged list is the most-derived class's own parameters in
\* declaration order, then each ancestor's not-yet-seen parameters, ancestors
\* in linearization order, each in its own declaration order.
C3_MergedOrder ==
    mro_pc = "done" =>
        /\ SubSeq(merged, 1, Len(Own(1))) = Own(1)
        /\ Names(merged) = FirstOccurrences(Names(Own(1) \o Own(2) \o Own(3) \o Own(4)), {})

\* Child(name) over ancestors of which one declares <<value, name>>: the
\* result is [name, value].
C3_Witness ==
    /\ mro_pc = "done"
    /\ Names(Own(1)) = <<P_name>>
    /\ Names(Own(2)) = <<P_value, P_name>>
    /\ Names(merged) = <<P_name, P_value>>

\* the warnings emitted for ancestor j's parameter of name n
WarningsFor(j, n) == {k \in 1..Len(warnings) : warnings[k].parent_cls = Traversed[j] /\ warnings[k].name = n}

\* ancestor j's parameter of name n collides with an already-seen version
Collides(j, n) == HasName(Own(j), n) /\ FirstDeclaring(n) < j

Conflicts(j, n) ==
    LET kept == ByName(Own(FirstDeclaring(n)), n)
        theirs == ByName(Own(j), n)
    IN kept.annotation # None /\ theirs.annotation # None /\ kept.annotation # theirs.annotation

\* C4: a type-conflict warning is emitted for a name collision exactly when
\* warnings are enabled and both the kept version and the ancestor's version
\* are annotated, with annotations that differ; and the merge completes
\* whatever was warned about.
C4_WarningExactlyOnConflict ==
    mro_pc = "done" =>
        /\ \A j \in 2..4, n \in DeclaredNames :
              Cardinality(WarningsFor(j, n)) =
                  IF Collides(j, n) /\ warn_on_conflict /\ Conflicts(j, n) THEN 1 ELSE 0
        /\ \A k \in 1..Len(warnings) :
              \E j \in 2..4 : warnings[k].parent_cls = Traversed[j] /\ Collides(j, warnings[k].name)
        /\ \A n \in DeclaredNames : HasName(merged, n)

\* Warnings enabled: one collision warned about, another (an unannotated
\* side) not.
C4_Witness ==
    /\ mro_pc = "done"
    /\ warn_on_conflict
    /\ \E j \in 2..4 : Collides(j, P_value) /\ Cardinality(WarningsFor(j, P_value)) = 1
    /\ \E j \in 2..4 : /\ Collides(j, P_value)
                        /\ WarningsFor(j, P_value) = {}
                        /\ ByName(Own(j), P_value).annotation = None

\* C5: every type-conflict warning names the class that declared the kept
\* (more-derived) version of the parameter and the ancestor class that
\* declared the conflicting version.
C5_WarningNamesDeclaringClass ==
    \A k \in 1..Len(warnings) :
        /\ warnings[k].child_cls = Traversed[FirstDeclaring(warnings[k].name)]
        /\ \E j \in 2..4 : warnings[k].parent_cls = Traversed[j] /\ Collides(j, warnings[k].name)

\* C5 as amended: every warning names the class being traversed (whichever
\* class declared the kept version), the kept version's annotation, and the
\* ancestor class that declared the conflicting version with its annotation.
C5_WarningNamesTraversedClass ==
    \A k \in 1..Len(warnings) :
        LET w == warnings[k]
        IN /\ w.child_cls = Traversed[1]
           /\ w.child_type = ByName(Own(FirstDeclaring(w.name)), w.name).annotation
           /\ \E j \in 2..4 : /\ w.parent_cls = Traversed[j]
                               /\ Collides(j, w.name)
                               /\ w.parent_type = ByName(Own(j), w.name).annotation

\* A warning about a parameter whose kept version an intermediate class
\* declared.
C5_Witness ==
    /\ mro_pc = "done"
    /\ \E k \in 1..Len(warnings) : FirstDeclaring(warnings[k].name) > 1

\* C8: for every basic type T and representative value v of T, the converter
\* resolve_type(T) yields satisfies converter(str(v)) == v.  (The model's
\* float parse is exact, so equality is the comparison with any tolerance.)
C8_RoundTrip == rt_pc = "converted" => rt_result = rt_value

\* the override a parameter carries asks for the parameter to be skipped
SkipRequested(p) ==
    LET m == extract_arg_metadata(p.annotation) IN m # None /\ m.skip

\* the names of the arguments a parameter can give rise to: its own, and
\* one per key of a mapping-valued default
DerivedNames(p) ==
    {p.name} \cup
        (IF p.has_default /\ p.default.kind = "dict"
         THEN {p.name \o <<"_">> \o p.default.items[i][1].val :
                   i \in {j \in 1..Len(p.default.items) : p.default.items[j][1].kind = "str"}}
         ELSE {})

\* C6: a parameter whose override requests skip contributes no argument
\* to the built parser configuration, whatever its type, kind or default
\* (mapping-valued defaults included).
C6_SkipContributesNothing ==
    args_pc = "done" =>
        \A i \in 1..Len(args_func_info.parameters) :
            SkipRequested(args_func_info.parameters[i]) =>
                \A k \in 1..Len(parser_config.arguments) :
                    parser_config.arguments[k].name \notin DerivedNames(args_func_info.parameters[i])

\* C7: no built argument is both hidden and positional, whichever way it
\* became positional.
C7_HiddenImpliesNotPositional ==
    args_pc = "done" =>
        \A k \in 1..Len(parser_config.arguments) :
            ~(parser_config.arguments[k].hidden /\ parser_config.arguments[k].positional)

\* C9: with the default prefix setting every constructor parameter p of a
\* decorated class is a global option whose long flag is "--" and p with
\* hyphens for underscores, without the class name, and giving that flag
\* before the subcommand hands the parsed value to the constructor of the
\* instance the subcommand's method runs on.
C9_UnprefixedConstructorOptions ==
    (class_wrapper.prefix = BoolValue(FALSE) /\ class_wrapper.parser_config # None) =>
        /\ \A i \in 1..Len(class_wrapper.cls.init) :
               \E k \in 1..Len(class_wrapper.parser_config.arguments) :
                   /\ class_wrapper.parser_config.arguments[k].name = class_wrapper.cls.init[i].name
                   /\ class_wrapper.parser_config.arguments[k].flags =
                          << <<"-", "-">> \o Replace(class_wrapper.cls.init[i].name, "_", "-") >>
        /\ (/\ last_access.wrapper = "class"
            /\ last_access.op = "run"
            /\ last_access.input = Argv(<<param_to_flag(N_verbose, None), N_run>>)) =>
               /\ last_access.value.kind = "ran"
               /\ last_access.value.method = N_run
               /\ N_verbose \in DOMAIN last_access.value.instance.kwargs.items
               /\ last_access.value.instance.kwargs.items[N_verbose] = BoolValue(TRUE)

\* what one wrapper must satisfy: nothing built before the first access,
\* one build from then on by whatever operation came first, and the parser
\* first built is the one held and the one the parser property returns
BuiltOnce(w, name, unbuilt) ==
    /\ w.builds = 0 => unbuilt /\ last_access.wrapper # name
    /\ w.builds <= 1
    /\ w.builds = 1 => w.parser # None /\ w.parser_config # None /\ w.parser.id = 1
    /\ last_access.wrapper = name =>
           /\ w.builds = 1
           /\ last_access.parser = w.parser
           /\ last_access.op = "parser" => last_access.value = w.parser

\* once a wrapper holds a parser, a step leaves that parser and the
\* configuration it was built from as they are
ParserKept(w, after) ==
    w.parser # None => after.parser = w.parser /\ after.parser_config = w.parser_config

PlainClass(a) ==
    /\ a # None
    /\ a.kind = "class"
    /\ a.cls \notin BASIC_TYPES \cup COLLECTION_TYPES
    /\ ~IsEnumSubclass(a.cls)

\* The positions after the first in the class's linearization that hold a
\* class with a registered converter.
RegisteredAncestors(c) ==
    {i \in 2..Len(ClassMro(c)) : ClassMro(c)[i] \in DOMAIN converters}

\* C13: the registry converter is used for a class annotation only on an
\* exact-type match: when the registry holds an entry for a strict base
\* class of the annotation and none for the annotation itself, the resolved
\* converter is the annotation's own constructor.
C13_ExactTypeMatchOnly ==
    (/\ type_info # Unresolved
     /\ registry_arg
     /\ PlainClass(annotation)
     /\ annotation.cls \notin DOMAIN converters
     /\ RegisteredAncestors(annotation.cls) # {})
        => type_info.converter = Ctor(annotation.cls)

\* C13 as amended: for a class annotation that is no basic type, collection
\* or enumeration, resolution with a registry takes the entry of the class
\* itself, else the entry of the nearest class of its linearization that has
\* one, and only when there is none the class's own constructor; without a
\* registry it is always the constructor.
C13_NearestRegisteredAncestor ==
    (type_info # Unresolved /\ PlainClass(annotation))
        => LET c == annotation.cls
           IN IF ~registry_arg THEN type_info.converter = Ctor(c)
              ELSE IF c \in DOMAIN converters
              THEN type_info.converter = Custom(converters[c])
              ELSE IF RegisteredAncestors(c) = {} THEN type_info.converter = Ctor(c)
              ELSE \E i \in RegisteredAncestors(c) :
                       /\ \A j \in RegisteredAncestors(c) : i <= j
                       /\ type_info.converter = Custom(converters[ClassMro(c)[i]])

\* SubItem resolved with a registry that holds different entries for Item
\* and object but none for SubItem: the converter is the one registered for
\* Item.
C13_Witness ==
    /\ type_info # Unresolved
    /\ registry_arg
    /\ annotation = Cls("SubItem")
    /\ "SubItem" \notin DOMAIN converters
    /\ "Item" \in DOMAIN converters
    /\ "object" \in DOMAIN converters
    /\ converters["Item"] # converters["object"]
    /\ type_info.converter = Custom(converters["Item"])

\* Optional[T] is the union of T with NoneType (flattened when T is itself a
\* union): the T of such an annotation.
IsOptionalAnnotation(a) ==
    a # None /\ a.kind = "union" /\ \E i \in 1..Len(a.args) : a.args[i] = NoneType

InnerAnnotation(a) ==
    LET NotNone(x) == x # NoneType
        others == SeqFilter(a.args, NotNone)
    IN IF Len(others) = 1 THEN others[1] ELSE Union(others)

\* The registry argument of the last resolution.
RegistryArgument == IF registry_arg THEN Registry(converters) ELSE NoRegistry

\* C17: for every annotation T, resolving Optional[T] yields the resolution
\* of T with is_optional true: origin, type arguments, literal flag and
\* values, enum flag and class, and converter are those of resolve(T), with
\* the same registry argument.
C17_OptionalCopiesInner ==
    (type_info # Unresolved /\ IsOptionalAnnotation(annotation))
        => \E inner \in {resolve_type(InnerAnnotation(annotation), RegistryArgument)} :
               /\ type_info.is_optional
               /\ type_info.origin = inner.origin
               /\ type_info.args = inner.args
               /\ type_info.is_literal = inner.is_literal
               /\ type_info.literal_values = inner.literal_values
               /\ type_info.is_enum = inner.is_enum
               /\ type_info.enum_class = inner.enum_class
               /\ type_info.converter = inner.converter

\* Optional[Color] resolved: optional, and an enumeration with Color's
\* by-name converter.
C17_Witness ==
    /\ annotation = Optional(Cls("Color"))
    /\ type_info # Unresolved
    /\ type_info.is_optional
    /\ type_info.is_enum
    /\ type_info.enum_class = Cls("Color")
    /\ type_info.converter = EnumConv("Color")


(***************************************************************************)
(* One call of build_argument_config.                                      *)
(***************************************************************************)
ArgumentBuilt == argument_config # Unbuilt

\* the override sets an action (and does not skip the parameter)
OverridesAction ==
    /\ given_metadata # None
    /\ ~given_metadata.skip
    /\ Truthy(given_metadata.action)

ValuelessKinds == {A_store_true, A_store_false, A_store_const, A_count}

\* the converter the build gives the same parameter without any override
ConverterWithoutOverride ==
    build_argument_config(given_param, None, given_prefix).type

\* C14: when the override sets the action to store_true, store_false,
\* store_const or count, the built argument has no converter whatever the
\* annotation; when it sets another action (append), the built argument has
\* the converter the parameter's type gives it without the override.
C14_ValuelessActionClearsConverter ==
    ArgumentBuilt /\ OverridesAction =>
        IF given_metadata.action \in ValuelessKinds
        THEN argument_config.type = None
        ELSE argument_config.type = ConverterWithoutOverride

\* an int parameter built with action count: the int converter is cleared
C14_Witness ==
    /\ ArgumentBuilt
    /\ OverridesAction
    /\ given_metadata.action = A_count
    /\ given_param.annotation = Cls("int")
    /\ ConverterWithoutOverride = Ctor("int")
    /\ argument_config.type = None

\* C18: without a required override the built argument is required exactly
\* when the parameter has no default and the argument is not positional;
\* the built default is the override's default when it gives one, else the
\* parameter's own default (none when it has none).
C18_RequiredAndDefault ==
    ArgumentBuilt /\ ~argument_config.skip =>
        /\ (given_metadata = None \/ given_metadata.required = None) =>
               (argument_config.required
                    <=> (~given_param.has_default /\ ~argument_config.positional))
        /\ argument_config.default =
               IF given_metadata # None /\ given_metadata.default # None
               THEN given_metadata.default
               ELSE IF given_param.has_default THEN given_param.default
               ELSE None

\* a positional-only parameter without default, built with an override that
\* gives the default 7 and no required: not required, default 7
C18_Witness ==
    /\ ArgumentBuilt
    /\ given_param.kind = "POSITIONAL_ONLY"
    /\ ~given_param.has_default
    /\ given_metadata # None
    /\ given_metadata.required = None
    /\ given_metadata.default = IntValue(7)
    /\ argument_config.positional
    /\ ~argument_config.required
    /\ argument_config.default = IntValue(7)

\* the number of places where sub occurs in s
CountSub(s, sub) ==
    Cardinality({i \in 1..(Len(s) - Len(sub) + 1) : SubSeq(s, i, i + Len(sub) - 1) = sub})

\* "(default: <value>)" for a value: a string quoted, anything else as str()
DefaultSuffix(v) ==
    <<"(", "d", "e", "f", "a", "u", "l", "t", ":", " ">>
        \o (IF v.kind = "str" THEN Repr(v) ELSE FormatValue(v)) \o <<")">>

\* the help text the build starts from: the override's, else the description
BaseHelp ==
    IF given_metadata # None /\ Truthy(given_metadata.help) THEN given_metadata.help.val
    ELSE IF Truthy(given_param.description) THEN given_param.description.val
    ELSE <<>>

\* C19: a built argument with help text and a default other than none has
\* "(default: <value>)" for that default in its help text exactly once; a
\* built argument with help text and a none default has the help text it
\* started from, nothing added.
C19_HelpDescribesBuiltDefault ==
    ArgumentBuilt /\ ~argument_config.skip /\ argument_config.help # None =>
        IF argument_config.default # None
        THEN CountSub(argument_config.help.val, DefaultSuffix(argument_config.default)) = 1
        ELSE argument_config.help.val = BaseHelp

(***************************************************************************)
(* Enum-typed parameters through build_parser_config.                      *)
(***************************************************************************)
\* the type a parameter is declared with, its Annotated wrapper taken off
DeclaredType(a) == IF a # None /\ a.kind = "annotated" THEN a.type ELSE a

\* a parameter of enum type (Color or Optional[Color]) that yields one
\* argument of its own and has no choices or metavar override
EnumTypedParameter(p) ==
    /\ DeclaredType(p.annotation) \in {Cls("Color"), Optional(Cls("Color"))}
    /\ p.kind \in NamedKinds
    /\ ~is_expandable_dict(p)
    /\ \E am \in {extract_arg_metadata(p.annotation)} :
           am = None \/ (~am.skip /\ am.choices = None /\ am.metavar = None)

ColorMetavar == StrValue(<<"{", "R", "E", "D", ",", "G", "R", "E", "E", "N", "}">>)

\* C15: every enum-typed parameter without a choices or metavar override
\* (Optional[enum] included) has a built argument whose choices are none
\* and whose metavar is "{" + the member names in declaration order, joined
\* by commas + "}".
C15_EnumMetavarNoChoices ==
    args_pc = "done" =>
        \A i \in 1..Len(args_func_info.parameters) :
            EnumTypedParameter(args_func_info.parameters[i]) =>
                \E j \in 1..Len(parser_config.arguments) :
                    /\ parser_config.arguments[j].name = args_func_info.parameters[i].name
                    /\ parser_config.arguments[j].choices = None
                    /\ parser_config.arguments[j].metavar = ColorMetavar

(***************************************************************************)
(* greet.run: the mapping parameter opts and the variadic parameters.      *)
(***************************************************************************)
\* greet.run(argv) went through to the call of greet
GreetCalled ==
    /\ last_access.wrapper = "func"
    /\ last_access.op = "run"
    /\ last_access.value.kind = "called"

\* the flag of key k of opts under the decorator's prefix setting
OptsFlag(k) ==
    <<"-", "-">>
        \o (IF func_wrapper.prefix = BoolValue(FALSE) THEN <<>>
            ELSE IF func_wrapper.prefix = BoolValue(TRUE) THEN N_greet \o <<"-">>
            ELSE func_wrapper.prefix.val \o <<"-">>)
        \o N_opts \o <<"-">> \o k

\* the places of the command line where the flag of key k stands
Supplied(tokens, k) == {i \in 1..(Len(tokens) - 1) : tokens[i] = OptsFlag(k)}

\* the default mapping with the entry of every supplied key replaced by
\* the token behind its flag, converted to the type of the key's default
ExpectedOpts(tokens) ==
    DictValue([i \in 1..Len(GreetOpts.items) |->
        IF Supplied(tokens, GreetOpts.items[i][1].val) = {} THEN GreetOpts.items[i]
        ELSE <<GreetOpts.items[i][1],
               Apply(Ctor(GreetOpts.items[i][2].kind),
                     tokens[FirstOf(Supplied(tokens, GreetOpts.items[i][1].val)) + 1])>>])

VariadicNames == {N_args, N_kwargs}
NamedNames == {N_name, N_count, N_opts}

RegisteredNames(g) ==
    {g.commands[i][1] : i \in 1..Len(g.commands)}
        \cup {g.subgroups[i][1] : i \in 1..Len(g.subgroups)}
SubparserNames(parser) == {parser.subparsers[i].name : i \in 1..Len(parser.subparsers)}

\* C11: whenever cli.parser returns a parser, its sub-parsers are exactly
\* the commands and subgroups registered on cli by then; if cli held a
\* parser before the access, that very parser is returned and nothing is
\* built, and if it held none, the access builds; a registration of a
\* command or a subgroup leaves cli without cached parser and configuration.
C11_ParserHoldsRegistered ==
    /\ (group_access.op = "parser" /\ group_access.value # TypeError) =>
           /\ SubparserNames(group_access.value) = RegisteredNames(cli_group)
           /\ group_access.held_before # None =>
                  (group_access.value = group_access.held_before /\ ~group_access.built)
           /\ group_access.held_before = None => group_access.built
    /\ group_access.op \in {"command", "group"} =>
           (cli_group.parser = None /\ cli_group.parser_config = None)

\* the call @wArgs func would make of these tokens on its own
Wrapped(func) == WargsWrapper(func, None, None, TRUE, None, FALSE, BoolValue(FALSE))
AloneCall(func, tokens) == WargsWrapper_run(Wrapped(func), tokens)[2]

\* the places of a command line that name a command registered on cli
CommandTokens(tokens) ==
    {i \in 1..Len(tokens) : KeyIndex(cli_group.commands, tokens[i]) # 0}

\* the function registered under the first command a command line names
SelectedFunction(tokens) ==
    cli_group.commands[KeyIndex(cli_group.commands, tokens[FirstOf(CommandTokens(tokens))])][2].func

\* the tokens before and behind the first command a command line names
SharedTokens(tokens) == SubSeq(tokens, 1, FirstOf(CommandTokens(tokens)) - 1)
OwnTokens(tokens) == SubSeq(tokens, FirstOf(CommandTokens(tokens)) + 1, Len(tokens))

\* a command line that names a registered command, with options before it
\* that cli's function takes and options behind it that the command's does
NamesCommand(tokens) ==
    /\ CommandTokens(tokens) # {}
    /\ ~RaisesOnResolve(SelectedFunction(tokens))
    /\ AloneCall(Cli, SharedTokens(tokens)).kind = "called"
    /\ AloneCall(SelectedFunction(tokens), OwnTokens(tokens)).kind = "called"

\* C12: cli.run on a command line that names a registered command calls
\* cli's function once, with the shared options of the command line, then
\* the command's function once, with the command's own options, makes no
\* other call and returns what the command's function returned.
C12_GroupThenCommand ==
    (group_access.op = "run" /\ NamesCommand(group_access.input.tokens)) =>
        /\ calls = <<AloneCall(Cli, SharedTokens(group_access.input.tokens)),
                     AloneCall(SelectedFunction(group_access.input.tokens),
                               OwnTokens(group_access.input.tokens))>>
        /\ group_access.value = calls[2]

\* ---- the registry's history, read back from the log ----
LastEntry == registry_log[Len(registry_log)]

\* entry e takes away what the registry holds for class c
Removes(e, c) == (e.op = "unregister" /\ e.type = c) \/ e.op = "clear"

\* the register(c, .) calls among the first n entries that nothing later
\* among them has replaced or removed
LiveRegisters(n, c) ==
    {i \in 1..n :
         /\ registry_log[i].op = "register"
         /\ registry_log[i].type = c
         /\ \A j \in (i + 1)..n :
                /\ ~Removes(registry_log[j], c)
                /\ ~(registry_log[j].op = "register" /\ registry_log[j].type = c)}

HeldAfter(n, c) == LiveRegisters(n, c) # {}

LiveConverter(c) ==
    Custom(registry_log[CHOOSE i \in LiveRegisters(Len(registry_log), c) : TRUE].converter)

HoldingAncestors(c) ==
    {k \in 2..Len(ClassMro(c)) : HeldAfter(Len(registry_log), ClassMro(c)[k])}

ExpectedGet(c) ==
    IF HeldAfter(Len(registry_log), c) THEN LiveConverter(c)
    ELSE IF HoldingAncestors(c) = {} THEN None
    ELSE LiveConverter(ClassMro(c)[FirstOf(HoldingAncestors(c))])

GetTypes == RegTypes \cup {"SubItem", "bool", "str"}

\* C21: after any sequence of register, unregister and clear operations,
\* get(T) returns the converter of the most recent register(T, .) not since
\* removed by unregister(T) or clear(); failing that, the converter of the
\* first class after T in T's linearization that has one; otherwise None.
\* unregister(T) returns True exactly when it removed an entry.
C21_GetFollowsHistory ==
    converter_registry # None =>
        /\ \A c \in GetTypes : registry_get(converter_registry.converters, c) = ExpectedGet(c)
        /\ (registry_log # <<>> /\ LastEntry.op = "unregister")
               => registry_return =
                      BoolValue(HeldAfter(Len(registry_log) - 1, LastEntry.type))

\* int registered twice, object registered and unregistered again: a
\* subclass of int gets the later of int's converters
C21_Witness ==
    /\ converter_registry # None
    /\ Len(registry_log) = 4
    /\ \E i, j \in 1..3 :
           /\ i < j
           /\ registry_log[i] = Op("register", "", "int", "f", <<>>)
           /\ registry_log[j] = Op("register", "", "int", "g", <<>>)
    /\ LastEntry = Op("unregister", "", "object", "", <<>>)
    /\ registry_return = BoolValue(TRUE)
    /\ registry_get(converter_registry.converters, "bool") = Custom("g")

\* the group of the last load was loaded earlier, with no clear since
LoadedEarlier(op, clear_op) ==
    \E i \in 1..(Len(registry_log) - 1) :
        /\ registry_log[i].op = op
        /\ registry_log[i].group = LastEntry.group
        /\ \A j \in (i + 1)..(Len(registry_log) - 1) : registry_log[j].op # clear_op

\* the number of entry points of a group that load
Loadable(group) ==
    Cardinality({i \in 1..Len(entry_points(group)) : entry_points(group)[i].loads})

\* C30: ConverterRegistry.load_entry_points(group) loads the entry points
\* of a group not yet loaded on that registry even if a different group was
\* loaded earlier; only a repeated load of an already-loaded group, with no
\* clear() in between, is skipped and returns 0.
C30_LoadsEachGroupOnce ==
    (converter_registry # None /\ registry_log # <<>> /\ LastEntry.op = "load_entry_points") =>
        IF LoadedEarlier("load_entry_points", "clear")
        THEN LastEntry.invoked = <<>> /\ registry_return = IntValue(0)
        ELSE /\ LastEntry.invoked = EntryPointNames(entry_points(LastEntry.group))
             /\ registry_return = IntValue(Loadable(LastEntry.group))

\* whether the entry point called name in a group loads
LoadsByName(group, name) ==
    \E i \in 1..Len(entry_points(group)) :
        entry_points(group)[i].name = name /\ entry_points(group)[i].loads

\* the number of plugins the load recorded in entry e loaded
LoadedBy(e) ==
    Cardinality({i \in 1..Len(e.invoked) : LoadsByName(e.group, e.invoked[i])})

\* the first load of the last entry's group since the last clear, if any
FirstLoads(op, clear_op) ==
    {i \in 1..(Len(registry_log) - 1) :
         /\ registry_log[i].op = op
         /\ registry_log[i].group = LastEntry.group
         /\ \A j \in (i + 1)..(Len(registry_log) - 1) : registry_log[j].op # clear_op
         /\ \A j \in 1..(i - 1) :
                (registry_log[j].op = op /\ registry_log[j].group = LastEntry.group)
                    => \E k \in (j + 1)..(i - 1) : registry_log[k].op = clear_op}

\* s is a prefix of t that is not empty
Begins(s, t) == s # <<>> /\ Len(s) <= Len(t) /\ s = SubSeq(t, 1, Len(s))

\* group g was the subject of a load_converters call since the last clear
CalledSinceClear(g) ==
    \E i \in 1..Len(registry_log) :
        /\ registry_log[i].op = "load_converters"
        /\ registry_log[i].group = g
        /\ \A j \in (i + 1)..Len(registry_log) : registry_log[j].op # "plugin_clear"

\* C22: PluginRegistry.load_converters invokes the entry points of a group
\* at most once between clear() calls: a repeated call for the same group
\* loads nothing again and returns the number of plugins loaded the first
\* time; loading one group does not mark any other group as loaded; after
\* clear() no group is loaded and the next call loads again.
C22_GroupLoadedOncePerClear ==
    plugin_registry # None =>
        /\ \A g \in Groups : is_loaded(plugin_registry, g) <=> CalledSinceClear(g)
        /\ (registry_log # <<>> /\ LastEntry.op = "load_converters") =>
               IF LoadedEarlier("load_converters", "plugin_clear")
               THEN /\ LastEntry.invoked = <<>>
                    /\ \A i \in FirstLoads("load_converters", "plugin_clear") :
                           registry_return = IntValue(LoadedBy(registry_log[i]))
               ELSE /\ Begins(LastEntry.invoked, EntryPointNames(entry_points(LastEntry.group)))
                    /\ registry_return # PluginError
                           => /\ LastEntry.invoked = EntryPointNames(entry_points(LastEntry.group))
                              /\ registry_return = IntValue(Loadable(LastEntry.group))

\* both groups loaded, then the first asked for again
C22_Witness ==
    /\ plugin_registry # None
    /\ registry_log # <<>>
    /\ LastEntry = Op("load_converters", G_default, "", "", <<>>)
    /\ registry_return = IntValue(2)
    /\ \E i, j \in 1..Len(registry_log) :
           /\ i < j
           /\ registry_log[i] = Op("load_converters", G_default, "", "", <<"ints", "broken", "objects">>)
           /\ registry_log[j] = Op("load_converters", G_custom, "", "", <<"items">>)
    /\ \A i \in 1..Len(registry_log) : registry_log[i].op # "plugin_clear"

(***************************************************************************)
(* Decorated functions run on command lines.                               *)
(***************************************************************************)
\* func.run(argv) went through to the call of func
RunCalled(func) ==
    /\ func_wrapper # None
    /\ func_wrapper.func = func
    /\ last_access.wrapper = "func"
    /\ last_access.op = "run"
    /\ last_access.value.kind = "called"

\* the tokens behind the first token of the command line
ValueTokens == Tail(last_access.input.tokens)

\* the converter the default registry holds for Item
ItemConverter == registry_get(converter_registry.converters, "Item")

\* C23: a converter registered for class T on the default registry with the
\* module-level converter decorator, before a callable is decorated and
\* parsed, is the function that converts the command-line tokens of that
\* callable's parameters annotated with T, list[T] elements included.
C23_RegisteredConverterUsed ==
    ItemConverter # None =>
        /\ RunCalled(Send) =>
               last_access.value.kwargs.items[N_to] = Apply(ItemConverter, ValueTokens[1])
        /\ RunCalled(SendAll) =>
               last_access.value.kwargs.items[N_to] =
                   ListValue([i \in 1..Len(ValueTokens) |-> Apply(ItemConverter, ValueTokens[i])])

\* the argument built for parameter p of the decorated function
BuiltFor(p) ==
    {c \in {func_wrapper.parser_config.arguments[i] :
                i \in 1..Len(func_wrapper.parser_config.arguments)} : c.name = p.name}

\* the namespace attribute the parser stores the argument of c under
StoredUnder(c) == IF Truthy(c.dest) /\ ~c.positional THEN c.dest.val ELSE c.name

\* what the parser stored for the last command line
ParsedNamespace == parse_args(func_wrapper.parser, last_access.input.tokens)

\* what the call binds parameter p to: the keyword passed for it, or its
\* default when none is passed
Received(p) ==
    IF p.name \in DOMAIN last_access.value.kwargs.items
    THEN last_access.value.kwargs.items[p.name]
    ELSE p.default

\* C25: for a decorated function every kept parameter receives the value
\* parsed for its argument even when the override sets a custom dest: the
\* dispatch layer reads each value from the namespace attribute under which
\* the parser stored it.
C25_ValueReadFromItsDest ==
    (\E func \in DecoratedFunctions : RunCalled(func)) =>
        \A i \in 1..Len(func_wrapper.func.parameters) :
            \A c \in BuiltFor(func_wrapper.func.parameters[i]) :
                Received(func_wrapper.func.parameters[i]) =
                    GetAttr(ParsedNamespace, StoredUnder(c))

\* what serve receives for parameter n when run on argv
ServeReceives(argv, n) ==
    WargsWrapper_run(WargsWrapper(Serve, None, None, TRUE, None, FALSE, BoolValue(FALSE)),
                     argv)[2]

\* some command line makes serve receive b for parameter n
Reachable(n, b) ==
    \E argv \in DecoratedArgvs :
        \E r \in {ServeReceives(argv, n)} :
            r.kind = "called" /\ r.kwargs.items[n] = BoolValue(b)

\* the parameters of serve rendered as presence flags
PresenceFlags ==
    {c.name : c \in {d \in UNION {BuiltFor(Serve.parameters[i]) : i \in 1..Len(Serve.parameters)} :
                         d.action \in {A_store_true, A_store_false}}}

\* C29: for every boolean parameter rendered as a presence flag both truth
\* values are reachable from the command line, also when the parameter's
\* default is True.
C29_BothTruthValuesReachable ==
    RunCalled(Serve) =>
        \A n \in PresenceFlags : Reachable(n, TRUE) /\ Reachable(n, FALSE)

(***************************************************************************)
(* Parameters declared as Annotated[T, Arg(...)] through                   *)
(* build_parser_config.                                                    *)
(***************************************************************************)
\* the parameter as it would be declared with plain T
Unwrapped(p) ==
    ParameterInfo(p.name, DeclaredType(p.annotation), p.default, p.has_default, p.kind,
                  p.description)

\* a parameter declared as Annotated[T, Arg(...)] that yields one argument
AnnotatedParameter(p) ==
    /\ p.annotation # None
    /\ p.annotation.kind = "annotated"
    /\ p.kind \in NamedKinds
    /\ ~is_expandable_dict(p)
    /\ \E am \in {extract_arg_metadata(p.annotation)} : am # None /\ ~am.skip

\* the argument of plain T with the same override applied to it
PlainArgument(p) ==
    build_argument_config(Unwrapped(p), extract_arg_metadata(p.annotation), args_prefix)

\* C24: wrapping a parameter's type as Annotated[T, Arg(...)] changes only
\* what the Arg override specifies: the action, converter, arity and choices
\* of the built argument are those of a parameter annotated with plain T
\* under the same override.
C24_AnnotatedKeepsDerivation ==
    args_pc = "done" =>
        \A i \in 1..Len(args_func_info.parameters) :
            AnnotatedParameter(args_func_info.parameters[i]) =>
                \E j \in 1..Len(parser_config.arguments) :
                    \E plain \in {PlainArgument(args_func_info.parameters[i])} :
                        /\ parser_config.arguments[j].name = args_func_info.parameters[i].name
                        /\ parser_config.arguments[j].action = plain.action
                        /\ parser_config.arguments[j].type = plain.type
                        /\ parser_config.arguments[j].nargs = plain.nargs
                        /\ parser_config.arguments[j].choices = plain.choices

(***************************************************************************)
(* cli.run: options of the same name, and commands of a nested subgroup.   *)
(***************************************************************************)
\* the parameter names func has in common with cli's function
NamesInCommon(func) ==
    {Cli.parameters[i].name : i \in 1..Len(Cli.parameters)}
        \cap {func.parameters[j].name : j \in 1..Len(func.parameters)}

\* C26: when a shared option of cli and an option of the selected command
\* have the same parameter name, each function receives the value supplied
\* for its own option: the two values do not overwrite each other in the
\* parsed namespace.
C26_SameNameOptionsKeptApart ==
    (group_access.op = "run" /\ NamesCommand(group_access.input.tokens)) =>
        \A n \in NamesInCommon(SelectedFunction(group_access.input.tokens)) :
            /\ Len(calls) = 2
            /\ calls[1].kwargs.items[n] =
                   AloneCall(Cli, SharedTokens(group_access.input.tokens)).kwargs.items[n]
            /\ calls[2].kwargs.items[n] =
                   AloneCall(SelectedFunction(group_access.input.tokens),
                             OwnTokens(group_access.input.tokens)).kwargs.items[n]

\* the subgroup registered on cli under name s
SubgroupNamed(s) == cli_group.subgroups[KeyIndex(cli_group.subgroups, s)][2]

\* a command line whose first token names a subgroup of cli and whose second
\* names a command registered on that subgroup, followed by options the
\* command's function takes
NamesNestedCommand(tokens) ==
    /\ Len(tokens) >= 2
    /\ KeyIndex(cli_group.subgroups, tokens[1]) # 0
    /\ KeyIndex(SubgroupNamed(tokens[1]).commands, tokens[2]) # 0

\* the function of command c of subgroup s
NestedFunction(s, c) ==
    SubgroupNamed(s).commands[KeyIndex(SubgroupNamed(s).commands, c)][2].func

\* C27: for cli with a nested subgroup s that has a registered command c,
\* cli.run([s, c, options of c...]) parses successfully, calls cli's
\* function, then s's function, then c with its parsed options, in that
\* order, and returns c's result.
C27_NestedCommandRuns ==
    (group_access.op = "run" /\ NamesNestedCommand(group_access.input.tokens)) =>
        /\ calls = <<AloneCall(Cli, <<>>),
                     AloneCall(SubgroupNamed(group_access.input.tokens[1]).func, <<>>),
                     AloneCall(NestedFunction(group_access.input.tokens[1],
                                              group_access.input.tokens[2]),
                               SubSeq(group_access.input.tokens, 3,
                                      Len(group_access.input.tokens)))>>
        /\ group_access.value = calls[3]

(***************************************************************************)
(* The arguments of one parser: flags and namespace keys.                  *)
(***************************************************************************)
\* parameter p has no override that sets a flag or the dest
NoFlagOrDestOverride(p) ==
    \E am \in {extract_arg_metadata(p.annotation)} :
        am = None \/ (am.short = None /\ am.long = None /\ am.dest = None)

\* the namespace attribute argparse stores the argument of c under
NamespaceKey(c) ==
    IF Truthy(c.dest) /\ ~c.positional THEN c.dest.val
    ELSE IF c.positional THEN c.name
    ELSE Replace(SubSeq(c.flags[Len(c.flags)], 3, Len(c.flags[Len(c.flags)])), "-", "_")

\* the arguments that reach the parser
Emitted == SelectSeq(parser_config.arguments, LAMBDA c : ~c.skip)

FlagsOf(c) == {c.flags[k] : k \in 1..Len(c.flags)}

\* C28: absent explicit flag or dest overrides, all arguments emitted for
\* one parser have pairwise distinct flags and pairwise distinct namespace
\* keys, the per-key arguments of expanded mapping parameters included.
C28_DistinctFlagsAndKeys ==
    (/\ args_pc = "done"
     /\ \A i \in 1..Len(args_func_info.parameters) :
            NoFlagOrDestOverride(args_func_info.parameters[i])) =>
        \A i, j \in 1..Len(Emitted) :
            i < j => /\ FlagsOf(Emitted[i]) \cap FlagsOf(Emitted[j]) = {}
                     /\ NamespaceKey(Emitted[i]) # NamespaceKey(Emitted[j])

=============================================================================
